---- MODULE Spec2Model ----
(***************************************************************************)
(* The background job manager of job_manager.py: the JobManager registry,  *)
(* its start/stop/restart operations as the web layer's request threads    *)
(* execute them, the scheduler thread of a scheduled job, the monitor      *)
(* thread of a continuous job, and the child processes they launch.        *)
(*                                                                         *)
(* Only register_job takes self._lock, so the steps of all threads         *)
(* interleave.  A step is one statement of a thread, or a short run of     *)
(* adjacent statements of it: the status test of each operation, each      *)
(* write of job['status'], each Popen, each blocking wait and each sleep   *)
(* is a step of its own.  Time is a clock that Tick advances; a sleep      *)
(* ends when the clock has reached its wake-up time.  A child exits when   *)
(* ProcExit says so, with status 0 or with a non-zero status (written 1,   *)
(* which also stands for death by SIGTERM or SIGKILL).                     *)
(*                                                                         *)
(* stopped[j] is a history variable: stop(j) has returned success to a     *)
(* request thread and no request thread has called start or restart on j   *)
(* since, nor had such a call in progress at that moment.  pushed[j] is a   *)
(* history variable too: the entries put into job j's log pipe, in order.  *)
(*                                                                         *)
(* job['log_queue'] is a sequence (queue.Queue is first in, first out and  *)
(* its put and get_nowait are atomic) and job['logs'] is a sequence.  A    *)
(* request thread that has returned keeps the request (op, job) and its    *)
(* answer (ret, and out for a list of log entries) until its next request. *)
(*                                                                         *)
(* job_config[j] is the configuration that job_config.py returns for job   *)
(* j, which the environment fixes before the program starts.               *)
(*                                                                         *)
(* budget holds the limits of a run of the model: the number of requests,  *)
(* the last second of the clock, the lines of output of a job's children.  *)
(* Spec is the start/stop/restart traffic of two request threads over two  *)
(* seconds, with silent children.  SpecRequests adds the status and logs   *)
(* requests, the unregistered id and the children's output, over one       *)
(* second.  SpecLogs is a scheduled job's first run with three requests,   *)
(* starts and concurrent logs reads.  SpecTiming is one scheduled job,     *)
(* started once and left to run for MaxRunTime seconds.  SpecScenario is  *)
(* one scheduled job whose command exits 0 at once, started once: there    *)
(* the clock advances only when no thread has a step to take, and every    *)
(* thread that has a step takes it (weak fairness).  SpecRestart is a      *)
(* continuous job that is started and then, while Running, restarted, with *)
(* no two requests in progress at once.  SpecPair is two registered jobs   *)
(* and two requests of any kind, over one second.  SpecRegister starts    *)
(* from the empty registry: jobs are registered while start requests come. *)
(* SpecStop is start, logs and stop requests on a job whose children write *)
(* output, one request at a time, within a second.  SpecAuto is a         *)
(* continuous job with auto_restart, started once and never stopped, with  *)
(* weak fairness on the steps of its threads and on the clock.  SpecFault  *)
(* is the traffic of Spec over one second, with supervising threads that   *)
(* may raise inside their try blocks.  SpecMode starts from the empty      *)
(* registry with configurations that may lack run_interval, and has the    *)
(* traffic of Spec over one second.  SpecStartup is the start of the       *)
(* program: the main thread runs initialize_jobs over the configurations   *)
(* of two jobs, then start requests are served.                            *)
(***************************************************************************)
EXTENDS Integers, Sequences, FiniteSets, TLC

\* ---------------------------------------------------------------- bounds
NumJobs == 1
NumCallers == 2
MaxCalls == 2
MaxProcs == 3
MaxTime == 2
MaxRestarts == 2
RunInterval == 2
RestartDelay == 1

\* The most lines of output the model lets the children of one job write.
MaxOutput == 1

\* The largest 'lines' parameter of a logs request.
MaxLines == 2

\* The requests of a run in which one job is started and its logs are read.
MaxLogCalls == 3

\* The last second of a run in which one scheduled job is started and left to run.
MaxRunTime == 5

\* The last second of a run in which a scheduled job's runs take no time.
MaxScenarioTime == 6

\* ------------------------------------------------------------- constants
None == -1

STOPPED == "stopped"
RUNNING == "running"
FAILED == "failed"
COMPLETED == "completed"
SCHEDULED == "scheduled"

JobStatus == {STOPPED, RUNNING, FAILED, COMPLETED, SCHEDULED}

\* The job ids of job_config.py, in the order get_all_job_configs lists them.
AllJobIds == <<"barcode_sync", "serial_number_sync", "staff_sync">>

JobIds == {AllJobIds[i] : i \in 1..NumJobs}

\* The jobs of a run in which what one job does is set against another job.
PairIds == {AllJobIds[i] : i \in 1..(NumJobs + 1)}

\* An id that initialize_jobs never registers: job_config.py defines
\* sample_job but leaves it out of the list it returns.
UnregisteredIds == {"sample_job"}

\* The ids a request can name in its URL.
RequestIds == JobIds \cup UnregisteredIds

Callers == 1..NumCallers

MaxThreads == MaxCalls + MaxProcs

Threads == 1..(NumCallers + MaxThreads)

Pids == 1..MaxProcs

\* A configuration as register_job reads it: run_interval = 0 makes the job
\* continuous, run_interval > 0 makes it scheduled.
Configs == [run_interval : {0, RunInterval}, auto_restart : BOOLEAN, max_restarts : 0..MaxRestarts, restart_delay : {RestartDelay}]

\* A configuration that has no run_interval.
ConfigsWithoutInterval == [auto_restart : BOOLEAN, max_restarts : 0..MaxRestarts, restart_delay : {RestartDelay}]

\* The configurations register_job may be given.
AnyConfigs == Configs \cup ConfigsWithoutInterval

\* A configuration as job_config.py builds it, with its enabled and
\* auto_start flags.
StartupConfigs == [run_interval : {0, RunInterval}, auto_restart : {FALSE}, max_restarts : {MaxRestarts}, restart_delay : {RestartDelay}, enabled : BOOLEAN, auto_start : BOOLEAN]

\* The thread that imports app.py and so calls initialize_jobs.
MainThread == NumCallers + 1

VARIABLES jobs, threads, procs, now, calls, stopped, pushed, budget, job_config

vars == <<jobs, threads, procs, now, calls, stopped, pushed, budget, job_config>>

\* ------------------------------------------------------------- register
\* config.get(key, default)
Get(config, key, default) == IF key \in DOMAIN config THEN config[key] ELSE default

\* register_job, line 39: the run_interval stored for a config that has none.
DefaultRunInterval == 300

register_job_started(config) == [auto_restart |-> config.auto_restart, restart_delay |-> config.restart_delay, run_interval |-> Get(config, "run_interval", DefaultRunInterval), max_restarts |-> config.max_restarts, status |-> IF Get(config, "run_interval", 0) > 0 THEN SCHEDULED ELSE STOPPED, process |-> None, thread |-> None, scheduler_thread |-> None, start_time |-> None, end_time |-> None, last_run_time |-> None, next_run_time |-> None, restart_count |-> 0, run_count |-> 0, is_scheduled |-> Get(config, "run_interval", 0) > 0, logs |-> <<>>, log_queue |-> <<>>]

register_job_one_default(config) == [auto_restart |-> config.auto_restart, restart_delay |-> config.restart_delay, run_interval |-> Get(config, "run_interval", DefaultRunInterval), max_restarts |-> config.max_restarts, status |-> STOPPED, process |-> None, thread |-> None, scheduler_thread |-> None, start_time |-> None, end_time |-> None, last_run_time |-> None, next_run_time |-> None, restart_count |-> 0, run_count |-> 0, is_scheduled |-> Get(config, "run_interval", DefaultRunInterval) > 0, logs |-> <<>>, log_queue |-> <<>>]

\* register_job, lines 33-56: the runtime state of a newly registered job.
register_job(config) == [auto_restart |-> config.auto_restart, restart_delay |-> config.restart_delay, run_interval |-> Get(config, "run_interval", DefaultRunInterval), max_restarts |-> config.max_restarts, status |-> STOPPED, process |-> None, thread |-> None, scheduler_thread |-> None, start_time |-> None, end_time |-> None, last_run_time |-> None, next_run_time |-> None, restart_count |-> 0, run_count |-> 0, is_scheduled |-> Get(config, "run_interval", 0) > 0, logs |-> <<>>, log_queue |-> <<>>]

\* The local log_entry of get_job_logs when it holds no entry.
NoEntry == [level |-> "", message |-> "", arg |-> 0]

NoThread == [kind |-> "none", pc |-> "none", job |-> "", op |-> "", proc |-> None, success |-> FALSE, wake |-> None, ret |-> "none", lines |-> 0, entry |-> NoEntry, out |-> <<>>]

IdleCaller == [kind |-> "caller", pc |-> "idle", job |-> "", op |-> "", proc |-> None, success |-> FALSE, wake |-> None, ret |-> "none", lines |-> 0, entry |-> NoEntry, out |-> <<>>]

DoneThread == [kind |-> "done", pc |-> "done", job |-> "", op |-> "", proc |-> None, success |-> FALSE, wake |-> None, ret |-> "none", lines |-> 0, entry |-> NoEntry, out |-> <<>>]

NoProc == [job |-> "", state |-> "unborn", rc |-> 0, signalled |-> FALSE, by |-> "none"]

\* The registry after initialize_jobs has registered the jobs ids, each
\* with the configuration job_config has for it, and the budget of a run of
\* the model.
InitOf(ids, b) ==
    /\ job_config \in [ids -> Configs]
    /\ jobs = [j \in ids |-> register_job(job_config[j])]
    /\ threads = [t \in Threads |-> IF t \in Callers THEN IdleCaller ELSE NoThread]
    /\ procs = [p \in Pids |-> NoProc]
    /\ now = 0
    /\ calls = 0
    /\ stopped = [j \in ids |-> FALSE]
    /\ pushed = [j \in ids |-> <<>>]
    /\ budget = b

InitWith(b) == InitOf(JobIds, b)

\* Requests start, stop and restart jobs whose children write no output.
Init == InitWith([calls |-> MaxCalls, time |-> MaxTime, output |-> 0])

\* -------------------------------------------------------------- helpers
alive(p) == procs[p].state = "alive"

exited(p) == procs[p].state = "exited"

ChildrenOf(j) == {p \in Pids : procs[p].job = j /\ alive(p)}

FreePids == {p \in Pids : procs[p].state = "unborn"}

NextPid == CHOOSE p \in FreePids : \A q \in FreePids : p <= q

FreeThreads == {t \in Threads : threads[t].kind = "none"}

NextThread == CHOOSE t \in FreeThreads : \A u \in FreeThreads : t <= u

PopenFirstCommand(j, kind) == [job |-> AllJobIds[1], state |-> "alive", rc |-> 0, signalled |-> FALSE, by |-> kind]

\* subprocess.Popen(job['command'], ...) succeeding: a new child of job j.
Popen(j, kind) == [job |-> j, state |-> "alive", rc |-> 0, signalled |-> FALSE, by |-> kind]

\* A log_entry dict: level and message; arg is the number the message is
\* formatted with (the run number, the return code), 0 if none. The
\* timestamp, which no code reads, is left out.
LogEntry(level, message, arg) == [level |-> level, message |-> message, arg |-> arg]

\* job['log_queue'].put(log_entry)
put(job, entry) == [job EXCEPT !.log_queue = Append(@, entry)]

\* The entry a supervising thread makes of a line of its child's output.
OutputLine == LogEntry("INFO", "line", 0)

\* The number of lines of output read from the children of job j so far.
OutputLines(j) == Cardinality({i \in DOMAIN pushed[j] : pushed[j][i] = OutputLine})

\* The history of the entries put into job j's pipe.
Pushed(j, entry) == [pushed EXCEPT ![j] = Append(@, entry)]

\* A start or restart call of a request thread on job j that has not returned.
StartInFlight(j) == \E c \in Callers : threads[c].job = j /\ threads[c].op \in {"start", "restart"} /\ threads[c].pc # "idle"

\* A request thread answers its request with the value the call returned;
\* op and job keep what the request was until the thread takes the next one.
Return(t, result) == [IdleCaller EXCEPT !.job = threads[t].job, !.op = threads[t].op, !.ret = result]

\* What a thread does when start_job returns: a request thread answers the
\* request, the main thread goes on with the loop of initialize_jobs (line
\* 369), a monitor thread (auto-restart, line 354) ends.
AfterStart(t, result) == IF threads[t].kind = "caller" THEN Return(t, result) ELSE IF threads[t].kind = "main" THEN [threads[t] EXCEPT !.pc = "init_next", !.ret = result] ELSE DoneThread

\* What a thread does when stop_job returns: restart_job goes on to its pause.
AfterStop(t, result) == IF threads[t].op = "restart" THEN [threads[t] EXCEPT !.pc = "restart_sleep", !.wake = now + 1] ELSE Return(t, result)

\* stop(j) returned success to its caller while no start/restart call is in flight.
StopReturned(t, j) == IF threads[t].op = "stop" /\ ~StartInFlight(j) THEN [stopped EXCEPT ![j] = TRUE] ELSE stopped

\* ------------------------------------------------------ request threads
\* POST /api/jobs/<job_id>/start
CallStart(c, j) ==
    /\ threads[c].pc = "idle"
    /\ calls < budget.calls
    /\ threads' = [threads EXCEPT ![c] = [IdleCaller EXCEPT !.pc = "start_check", !.job = j, !.op = "start"]]
    /\ calls' = calls + 1
    /\ stopped' = IF j \in DOMAIN jobs THEN [stopped EXCEPT ![j] = FALSE] ELSE stopped
    /\ UNCHANGED <<jobs, procs, now, pushed, budget, job_config>>

\* POST /api/jobs/<job_id>/stop
CallStop(c, j) ==
    /\ threads[c].pc = "idle"
    /\ calls < budget.calls
    /\ threads' = [threads EXCEPT ![c] = [IdleCaller EXCEPT !.pc = "stop_check", !.job = j, !.op = "stop"]]
    /\ calls' = calls + 1
    /\ UNCHANGED <<jobs, procs, now, stopped, pushed, budget, job_config>>

\* POST /api/jobs/<job_id>/restart: restart_job begins with stop_job.
CallRestart(c, j) ==
    /\ threads[c].pc = "idle"
    /\ calls < budget.calls
    /\ threads' = [threads EXCEPT ![c] = [IdleCaller EXCEPT !.pc = "stop_check", !.job = j, !.op = "restart"]]
    /\ calls' = calls + 1
    /\ stopped' = IF j \in DOMAIN jobs THEN [stopped EXCEPT ![j] = FALSE] ELSE stopped
    /\ UNCHANGED <<jobs, procs, now, pushed, budget, job_config>>

\* restart_job: time.sleep(1), then start_job.
RestartSleep(t) ==
    /\ threads[t].pc = "restart_sleep"
    /\ now >= threads[t].wake
    /\ threads' = [threads EXCEPT ![t] = [@ EXCEPT !.pc = "start_check", !.wake = None]]
    /\ UNCHANGED <<jobs, procs, now, calls, stopped, pushed, budget, job_config>>

\* -------------------------------------------- get_job_status, get_job_logs
\* GET /api/jobs/<job_id>
CallStatus(c, j) ==
    /\ threads[c].pc = "idle"
    /\ calls < budget.calls
    /\ threads' = [threads EXCEPT ![c] = [IdleCaller EXCEPT !.pc = "status_get", !.job = j, !.op = "status"]]
    /\ calls' = calls + 1
    /\ UNCHANGED <<jobs, procs, now, stopped, pushed, budget, job_config>>

get_job_status_of_any(job_id) == "dict"

\* get_job_status, lines 274-296: None for an id that is not registered,
\* a dict of the job's fields otherwise.
get_job_status(job_id) == IF job_id \in DOMAIN jobs THEN "dict" ELSE "None"

StatusGet(t) ==
    /\ threads[t].pc = "status_get"
    /\ threads' = [threads EXCEPT ![t] = Return(t, get_job_status(threads[t].job))]
    /\ UNCHANGED <<jobs, procs, now, calls, stopped, pushed, budget, job_config>>

\* GET /api/jobs/<job_id>/logs?lines=n
CallLogs(c, j, n) ==
    /\ threads[c].pc = "idle"
    /\ calls < budget.calls
    /\ threads' = [threads EXCEPT ![c] = [IdleCaller EXCEPT !.pc = "logs_get", !.job = j, !.op = "logs", !.lines = n]]
    /\ calls' = calls + 1
    /\ UNCHANGED <<jobs, procs, now, stopped, pushed, budget, job_config>>

\* Python's s[start:], start counted from the end when it is negative.
SliceFrom(s, start) == LET n == Len(s)
                           b == IF start < 0 THEN (IF n + start < 0 THEN 0 ELSE n + start) ELSE (IF start > n THEN n ELSE start)
                       IN SubSeq(s, b + 1, n)

\* get_job_logs, line 318: job['logs'][-lines:] if job['logs'] else []
RecentLogs(logs, lines) == IF logs # <<>> THEN SliceFrom(logs, 0 - lines) ELSE <<>>

\* The list a logs call returns to its route.
ReturnLogs(t, out) == [Return(t, "list") EXCEPT !.out = out]

\* get_job_logs, lines 304-318: an unregistered id gets []; otherwise
\* get_nowait() takes the head of the pipe, or finds the pipe empty and the
\* call returns the most recent entries of job['logs'].
LogsGet(t) ==
    /\ threads[t].pc = "logs_get"
    /\ LET j == threads[t].job IN
        IF j \notin DOMAIN jobs
        THEN /\ threads' = [threads EXCEPT ![t] = ReturnLogs(t, <<>>)]
             /\ UNCHANGED jobs
        ELSE IF jobs[j].log_queue = <<>>
        THEN /\ threads' = [threads EXCEPT ![t] = ReturnLogs(t, RecentLogs(jobs[j].logs, threads[t].lines))]
             /\ UNCHANGED jobs
        ELSE /\ threads' = [threads EXCEPT ![t] = [@ EXCEPT !.pc = "logs_append", !.entry = Head(jobs[j].log_queue)]]
             /\ jobs' = [jobs EXCEPT ![j] = [@ EXCEPT !.log_queue = Tail(@)]]
    /\ UNCHANGED <<procs, now, calls, stopped, pushed, budget, job_config>>

\* get_job_logs, line 313: job['logs'].append(log_entry)
LogsAppend(t) ==
    /\ threads[t].pc = "logs_append"
    /\ LET j == threads[t].job IN
        jobs' = [jobs EXCEPT ![j] = [@ EXCEPT !.logs = Append(@, threads[t].entry)]]
    /\ threads' = [threads EXCEPT ![t] = [@ EXCEPT !.pc = "logs_get", !.entry = NoEntry]]
    /\ UNCHANGED <<procs, now, calls, stopped, pushed, budget, job_config>>

\* ------------------------------------------------------------ start_job
IsActiveRunningOnly(job) == job.status = RUNNING

IsActiveOrFailed(job) == job.status = RUNNING \/ job.status = SCHEDULED \/ job.status = FAILED

IsActive(job) == job.status = RUNNING \/ job.status = SCHEDULED

\* start_job, lines 60-68: the registration and status checks.
StartCheck(t) ==
    /\ threads[t].pc = "start_check"
    /\ LET j == threads[t].job IN
        IF j \notin DOMAIN jobs
        THEN threads' = [threads EXCEPT ![t] = AfterStart(t, "False")]
        ELSE IF IsActive(jobs[j])
        THEN threads' = [threads EXCEPT ![t] = AfterStart(t, "True")]
        ELSE threads' = [threads EXCEPT ![t] = [@ EXCEPT !.pc = "start_reset"]]
    /\ UNCHANGED <<jobs, procs, now, calls, stopped, pushed, budget, job_config>>

ResetBothCounts(job) == [job EXCEPT !.restart_count = 0, !.run_count = 0]

ResetRestartCount(job) == [job EXCEPT !.restart_count = 0]

\* start_job, lines 71-78: reset the restart count, dispatch on the mode.
StartReset(t) ==
    /\ threads[t].pc = "start_reset"
    /\ LET j == threads[t].job IN
        /\ jobs' = [jobs EXCEPT ![j] = ResetRestartCount(@)]
        /\ threads' = [threads EXCEPT ![t] = [@ EXCEPT !.pc = IF jobs[j].is_scheduled THEN "sched_set" ELSE "cont_popen"]]
    /\ UNCHANGED <<procs, now, calls, stopped, pushed, budget, job_config>>

MarkScheduledAsRunning(job) == [job EXCEPT !.status = RUNNING, !.start_time = now, !.next_run_time = now]

MarkScheduledNotDue(job) == [job EXCEPT !.status = SCHEDULED, !.start_time = now]

MarkScheduled(job) == [job EXCEPT !.status = SCHEDULED, !.start_time = now, !.next_run_time = now]

\* _start_scheduled_job, lines 89-91.
StartScheduledSet(t) ==
    /\ threads[t].pc = "sched_set"
    /\ LET j == threads[t].job IN
        jobs' = [jobs EXCEPT ![j] = MarkScheduled(@)]
    /\ threads' = [threads EXCEPT ![t] = [@ EXCEPT !.pc = "sched_spawn"]]
    /\ UNCHANGED <<procs, now, calls, stopped, pushed, budget, job_config>>

\* _start_scheduled_job, lines 94-103: the scheduler thread is started.
StartScheduledSpawn(t) ==
    /\ threads[t].pc = "sched_spawn"
    /\ FreeThreads # {}
    /\ LET j == threads[t].job
           s == NextThread IN
        /\ jobs' = [jobs EXCEPT ![j] = [@ EXCEPT !.scheduler_thread = s]]
        /\ threads' = [threads EXCEPT ![t] = AfterStart(t, "True"), ![s] = [NoThread EXCEPT !.kind = "scheduler", !.pc = "sched_loop", !.job = j]]
    /\ UNCHANGED <<procs, now, calls, stopped, pushed, budget, job_config>>

KeepLogs(job) == job

\* _start_continuous_job, lines 110-111: "Clear old logs if starting fresh".
ClearLogs(job) == [job EXCEPT !.logs = <<>>, !.log_queue = <<>>]

\* _start_continuous_job, lines 110-120: the logs are cleared, the child is launched.
StartContinuousPopen(t) ==
    /\ threads[t].pc = "cont_popen"
    /\ FreePids # {}
    /\ LET j == threads[t].job
           p == NextPid IN
        /\ jobs' = [jobs EXCEPT ![j] = ClearLogs(@)]
        /\ procs' = [procs EXCEPT ![p] = Popen(j, threads[t].kind)]
        /\ threads' = [threads EXCEPT ![t] = [@ EXCEPT !.pc = "cont_set", !.proc = p]]
    /\ UNCHANGED <<now, calls, stopped, pushed, budget, job_config>>

LeaveStatus(job) == job

\* start_job, line 82: job['status'] = JobStatus.FAILED
MarkFailed(job) == [job EXCEPT !.status = FAILED]

\* _start_continuous_job: Popen raises; start_job, lines 80-83, catches it.
StartContinuousFail(t) ==
    /\ threads[t].pc = "cont_popen"
    /\ LET j == threads[t].job IN
        jobs' = [jobs EXCEPT ![j] = MarkFailed(ClearLogs(@))]
    /\ threads' = [threads EXCEPT ![t] = AfterStart(t, "False")]
    /\ UNCHANGED <<procs, now, calls, stopped, pushed, budget, job_config>>

MarkRunning(job, p) == [job EXCEPT !.process = p, !.status = RUNNING, !.start_time = now, !.end_time = None]

\* _start_continuous_job, lines 122-125.
StartContinuousSet(t) ==
    /\ threads[t].pc = "cont_set"
    /\ LET j == threads[t].job IN
        jobs' = [jobs EXCEPT ![j] = MarkRunning(@, threads[t].proc)]
    /\ threads' = [threads EXCEPT ![t] = [@ EXCEPT !.pc = "cont_spawn", !.proc = None]]
    /\ UNCHANGED <<procs, now, calls, stopped, pushed, budget, job_config>>

\* _start_continuous_job, lines 128-137: the monitor thread is started.
StartContinuousSpawn(t) ==
    /\ threads[t].pc = "cont_spawn"
    /\ FreeThreads # {}
    /\ LET j == threads[t].job
           m == NextThread IN
        /\ jobs' = [jobs EXCEPT ![j] = [@ EXCEPT !.thread = m]]
        /\ threads' = [threads EXCEPT ![t] = AfterStart(t, "True"), ![m] = [NoThread EXCEPT !.kind = "monitor", !.pc = "mon_init", !.job = j]]
    /\ UNCHANGED <<procs, now, calls, stopped, pushed, budget, job_config>>

\* ------------------------------------------------------------- stop_job
\* stop_job, lines 237-243: the registration and status checks.
StopCheck(t) ==
    /\ threads[t].pc = "stop_check"
    /\ LET j == threads[t].job IN
        IF j \notin DOMAIN jobs
        THEN /\ threads' = [threads EXCEPT ![t] = AfterStop(t, "False")]
             /\ UNCHANGED stopped
        ELSE IF ~IsActive(jobs[j])
        THEN /\ threads' = [threads EXCEPT ![t] = AfterStop(t, "True")]
             /\ stopped' = StopReturned(t, j)
        ELSE /\ threads' = [threads EXCEPT ![t] = [@ EXCEPT !.pc = "stop_term"]]
             /\ UNCHANGED stopped
    /\ UNCHANGED <<jobs, procs, now, calls, pushed, budget, job_config>>

\* process.terminate(): SIGTERM, which a child that has exited does not get.
terminate(p) == [procs EXCEPT ![p] = [@ EXCEPT !.signalled = alive(p)]]

\* stop_job, lines 247-248: only the handle in job['process'] is signalled.
StopTerminate(t) ==
    /\ threads[t].pc = "stop_term"
    /\ LET j == threads[t].job IN
        IF jobs[j].process # None
        THEN /\ procs' = terminate(jobs[j].process)
             /\ threads' = [threads EXCEPT ![t] = [@ EXCEPT !.pc = "stop_wait"]]
        ELSE /\ threads' = [threads EXCEPT ![t] = [@ EXCEPT !.pc = "stop_set"]]
             /\ UNCHANGED procs
    /\ UNCHANGED <<jobs, now, calls, stopped, pushed, budget, job_config>>

\* stop_job, line 251: process.wait(timeout=5) returns, the child has exited.
StopWait(t) ==
    /\ threads[t].pc = "stop_wait"
    /\ exited(jobs[threads[t].job].process)
    /\ threads' = [threads EXCEPT ![t] = [@ EXCEPT !.pc = "stop_set"]]
    /\ UNCHANGED <<jobs, procs, now, calls, stopped, pushed, budget, job_config>>

\* process.kill() and process.wait(): SIGKILL ends the child with a non-zero status.
kill(p) == [procs EXCEPT ![p] = [@ EXCEPT !.state = "exited", !.rc = 1]]

\* stop_job, lines 252-255: the wait timed out, the child is killed.
StopKill(t) ==
    /\ threads[t].pc = "stop_wait"
    /\ alive(jobs[threads[t].job].process)
    /\ procs' = kill(jobs[threads[t].job].process)
    /\ threads' = [threads EXCEPT ![t] = [@ EXCEPT !.pc = "stop_set"]]
    /\ UNCHANGED <<jobs, now, calls, stopped, pushed, budget, job_config>>

MarkStoppedAndCleared(job) == [job EXCEPT !.status = STOPPED, !.end_time = now, !.logs = <<>>, !.log_queue = <<>>]

MarkStoppedAndReset(job) == [job EXCEPT !.status = STOPPED, !.end_time = now, !.restart_count = 0]

MarkStopped(job) == [job EXCEPT !.status = STOPPED, !.end_time = now]

\* stop_job, lines 257-260.
StopSet(t) ==
    /\ threads[t].pc = "stop_set"
    /\ LET j == threads[t].job IN
        /\ jobs' = [jobs EXCEPT ![j] = MarkStopped(@)]
        /\ stopped' = StopReturned(t, j)
    /\ threads' = [threads EXCEPT ![t] = AfterStop(t, "True")]
    /\ UNCHANGED <<procs, now, calls, pushed, budget, job_config>>

\* --------------------------------------------------------- _monitor_job
\* _monitor_job, line 323: the thread reads the handle from job['process'].
MonitorInit(t) ==
    /\ threads[t].pc = "mon_init"
    /\ threads' = [threads EXCEPT ![t] = [@ EXCEPT !.pc = "mon_wait", !.proc = jobs[threads[t].job].process]]
    /\ UNCHANGED <<jobs, procs, now, calls, stopped, pushed, budget, job_config>>

\* _monitor_job, lines 327-334: a line of the child's output is read and queued.
MonitorReadLine(t) ==
    /\ threads[t].pc = "mon_wait"
    /\ OutputLines(threads[t].job) < budget.output
    /\ LET j == threads[t].job IN
        /\ jobs' = [jobs EXCEPT ![j] = put(@, OutputLine)]
        /\ pushed' = Pushed(j, OutputLine)
    /\ UNCHANGED <<threads, procs, now, calls, stopped, budget, job_config>>

MarkExited(job, return_code) == [job EXCEPT !.status = IF return_code = 0 THEN COMPLETED ELSE FAILED, !.end_time = now]

\* _monitor_job, lines 327-347: the output ends, the exit status is read.
MonitorExit(t) ==
    /\ threads[t].pc = "mon_wait"
    /\ exited(threads[t].proc)
    /\ LET j == threads[t].job IN
        jobs' = [jobs EXCEPT ![j] = MarkExited(@, procs[threads[t].proc].rc)]
    /\ threads' = [threads EXCEPT ![t] = [@ EXCEPT !.pc = "mon_auto", !.proc = None]]
    /\ UNCHANGED <<procs, now, calls, stopped, pushed, budget, job_config>>

ShouldAutoRestart(job) == job.auto_restart /\ job.status = FAILED

\* _monitor_job, lines 350-352: the auto-restart decision and its delay.
MonitorAuto(t) ==
    /\ threads[t].pc = "mon_auto"
    /\ LET j == threads[t].job IN
        IF ShouldAutoRestart(jobs[j])
        THEN threads' = [threads EXCEPT ![t] = [@ EXCEPT !.pc = "mon_sleep", !.wake = now + jobs[j].restart_delay]]
        ELSE threads' = [threads EXCEPT ![t] = DoneThread]
    /\ UNCHANGED <<jobs, procs, now, calls, stopped, pushed, budget, job_config>>

IncrementRestartCount(job) == [job EXCEPT !.restart_count = @ + 1]

\* _monitor_job, lines 352-354: the delay is over; count it, call start_job.
MonitorRestart(t) ==
    /\ threads[t].pc = "mon_sleep"
    /\ now >= threads[t].wake
    /\ LET j == threads[t].job IN
        jobs' = [jobs EXCEPT ![j] = IncrementRestartCount(@)]
    /\ threads' = [threads EXCEPT ![t] = [@ EXCEPT !.pc = "start_check", !.wake = None]]
    /\ UNCHANGED <<procs, now, calls, stopped, pushed, budget, job_config>>

\* -------------------------------------------------------- _schedule_job
IsDueAlways(job) == TRUE

IsDue(job) == now >= job.next_run_time

\* _schedule_job, lines 151-155: "Starting scheduled run #{run_count + 1}".
StartingRun(job) == LogEntry("INFO", "Starting scheduled run", job.run_count + 1)

BeginRunTwice(job) == [job EXCEPT !.last_run_time = now, !.run_count = @ + 2]

BeginRun(job) == [job EXCEPT !.last_run_time = now, !.run_count = @ + 1]

\* _schedule_job, lines 144-160: the loop test, the due test, the run's bookkeeping.
ScheduleLoop(t) ==
    /\ threads[t].pc = "sched_loop"
    /\ LET j == threads[t].job IN
        IF jobs[j].status # SCHEDULED
        THEN /\ threads' = [threads EXCEPT ![t] = DoneThread]
             /\ UNCHANGED <<jobs, pushed>>
        ELSE IF IsDue(jobs[j])
        THEN /\ jobs' = [jobs EXCEPT ![j] = BeginRun(put(@, StartingRun(@)))]
             /\ pushed' = Pushed(j, StartingRun(jobs[j]))
             /\ threads' = [threads EXCEPT ![t] = [@ EXCEPT !.pc = "exec_popen"]]
        ELSE /\ threads' = [threads EXCEPT ![t] = [@ EXCEPT !.pc = "sched_sleep", !.wake = now + 1]]
             /\ UNCHANGED <<jobs, pushed>>
    /\ UNCHANGED <<procs, now, calls, stopped, budget, job_config>>

\* _execute_job_run, lines 186-192: the run's child is launched.
ExecutePopen(t) ==
    /\ threads[t].pc = "exec_popen"
    /\ FreePids # {}
    /\ LET j == threads[t].job
           p == NextPid IN
        /\ procs' = [procs EXCEPT ![p] = Popen(j, threads[t].kind)]
        /\ threads' = [threads EXCEPT ![t] = [@ EXCEPT !.pc = "exec_wait", !.proc = p]]
    /\ UNCHANGED <<jobs, now, calls, stopped, pushed, budget, job_config>>

\* _execute_job_run, lines 226-230: "Job execution error".
ExecutionError == LogEntry("ERROR", "Job execution error", 0)

\* _execute_job_run, lines 225-233: Popen raises.
ExecuteFail(t) ==
    /\ threads[t].pc = "exec_popen"
    /\ LET j == threads[t].job IN
        /\ jobs' = [jobs EXCEPT ![j] = IncrementRestartCount(put(@, ExecutionError))]
        /\ pushed' = Pushed(j, ExecutionError)
    /\ threads' = [threads EXCEPT ![t] = [@ EXCEPT !.pc = "sched_after", !.success = FALSE]]
    /\ UNCHANGED <<procs, now, calls, stopped, budget, job_config>>

\* _execute_job_run, lines 195-202: a line of the child's output is read and queued.
ExecuteReadLine(t) ==
    /\ threads[t].pc = "exec_wait"
    /\ OutputLines(threads[t].job) < budget.output
    /\ LET j == threads[t].job IN
        /\ jobs' = [jobs EXCEPT ![j] = put(@, OutputLine)]
        /\ pushed' = Pushed(j, OutputLine)
    /\ UNCHANGED <<threads, procs, now, calls, stopped, budget, job_config>>

\* _execute_job_run, lines 207-219: the entry that reports the run's exit status.
RunEntry(return_code) == IF return_code = 0 THEN LogEntry("INFO", "Job run completed successfully", 0) ELSE LogEntry("ERROR", "Job run failed with return code", return_code)

RunResultConsecutive(job, return_code) == IF return_code = 0 THEN [put(job, RunEntry(return_code)) EXCEPT !.restart_count = 0] ELSE IncrementRestartCount(put(job, RunEntry(return_code)))

RunResult(job, return_code) == IF return_code = 0 THEN put(job, RunEntry(return_code)) ELSE IncrementRestartCount(put(job, RunEntry(return_code)))

\* _execute_job_run, lines 205-223: the output ends, the exit status is read.
ExecuteWait(t) ==
    /\ threads[t].pc = "exec_wait"
    /\ exited(threads[t].proc)
    /\ LET j == threads[t].job
           return_code == procs[threads[t].proc].rc IN
        /\ jobs' = [jobs EXCEPT ![j] = RunResult(@, return_code)]
        /\ pushed' = Pushed(j, RunEntry(return_code))
        /\ threads' = [threads EXCEPT ![t] = [@ EXCEPT !.pc = "sched_after", !.success = (return_code = 0), !.proc = None]]
    /\ UNCHANGED <<procs, now, calls, stopped, budget, job_config>>

ExceededMaxRestartsOrNot(job, success) == job.restart_count >= job.max_restarts

ExceededMaxRestartsStrict(job, success) == ~success /\ job.restart_count > job.max_restarts

ExceededMaxRestarts(job, success) == ~success /\ job.restart_count >= job.max_restarts

AfterRunOnSchedule(job, success) == IF ExceededMaxRestarts(job, success) THEN [job EXCEPT !.next_run_time = job.last_run_time + job.run_interval, !.status = FAILED, !.end_time = now] ELSE [job EXCEPT !.next_run_time = job.last_run_time + job.run_interval]

AfterRun(job, success) == IF ExceededMaxRestarts(job, success) THEN [job EXCEPT !.next_run_time = now + job.run_interval, !.status = FAILED, !.end_time = now] ELSE [job EXCEPT !.next_run_time = now + job.run_interval]

\* _schedule_job, lines 164-173: the next due time, the give-up test, the tick's sleep.
ScheduleAfterRun(t) ==
    /\ threads[t].pc = "sched_after"
    /\ LET j == threads[t].job IN
        /\ jobs' = [jobs EXCEPT ![j] = AfterRun(@, threads[t].success)]
        /\ threads' = [threads EXCEPT ![t] = IF ExceededMaxRestarts(jobs[j], threads[t].success) THEN DoneThread ELSE [@ EXCEPT !.pc = "sched_sleep", !.success = FALSE, !.wake = now + 1]]
    /\ UNCHANGED <<procs, now, calls, stopped, pushed, budget, job_config>>

\* _schedule_job, line 173: time.sleep(1) is over.
ScheduleSleep(t) ==
    /\ threads[t].pc = "sched_sleep"
    /\ now >= threads[t].wake
    /\ threads' = [threads EXCEPT ![t] = [@ EXCEPT !.pc = "sched_loop", !.wake = None]]
    /\ UNCHANGED <<jobs, procs, now, calls, stopped, pushed, budget, job_config>>

\* ------------------------------------------------------ initialize_jobs
ListedAlways(config) == TRUE

\* get_all_job_configs, lines 80-91: a configuration is listed if it is enabled.
Listed(config) == config.enabled

\* JobConfig.get_all_job_configs(): the ids of the listed configurations, in order.
get_all_job_configs == SelectSeq(SubSeq(AllJobIds, 1, NumJobs + 1), LAMBDA j : Listed(job_config[j]))

\* The place of job id j in the list, 0 for the id the loop begins with.
PlaceOf(j) == IF j = "" THEN 0 ELSE CHOOSE i \in 1..Len(get_all_job_configs) : get_all_job_configs[i] = j

\* initialize_jobs, lines 369-374: the next configuration is registered,
\* and start_job is called if it has auto_start.
InitializeRegister(t) ==
    /\ threads[t].kind = "main"
    /\ threads[t].pc = "init_next"
    /\ PlaceOf(threads[t].job) < Len(get_all_job_configs)
    /\ LET j == get_all_job_configs[PlaceOf(threads[t].job) + 1] IN
        /\ jobs' = [k \in DOMAIN jobs \cup {j} |-> IF k = j THEN register_job(job_config[j]) ELSE jobs[k]]
        /\ threads' = [threads EXCEPT ![t] = [@ EXCEPT !.job = j, !.ret = "none", !.pc = IF Get(job_config[j], "auto_start", FALSE) THEN "start_check" ELSE "init_next"]]
    /\ UNCHANGED <<procs, now, calls, stopped, pushed, budget, job_config>>

\* initialize_jobs: the list is at its end, the call returns.
InitializeReturn(t) ==
    /\ threads[t].kind = "main"
    /\ threads[t].pc = "init_next"
    /\ PlaceOf(threads[t].job) = Len(get_all_job_configs)
    /\ threads' = [threads EXCEPT ![t] = DoneThread]
    /\ UNCHANGED <<jobs, procs, now, calls, stopped, pushed, budget, job_config>>

\* initialize_jobs has returned: app.py goes on to define its routes.
Initialized == threads[MainThread].kind = "done"

\* A start request, which the server gets once the application is imported.
ServeStart(c, j) == Initialized /\ CallStart(c, j)

\* ------------------------------------------------- faults of the threads
\* A supervising thread whose function has returned from its except clause.
FaultedThread == [DoneThread EXCEPT !.ret = "caught"]

MarkFaultedOnly(job) == [job EXCEPT !.status = FAILED]

\* The except clauses of _schedule_job (lines 177-178) and of _monitor_job
\* (lines 358-359): status Failed, end_time now.
MarkFaulted(job) == [job EXCEPT !.status = FAILED, !.end_time = now]

\* _schedule_job, lines 143-178: a statement of the loop itself raises (not
\* _execute_job_run, which catches what its own statements raise).
ScheduleFault(t) ==
    /\ threads[t].kind = "scheduler"
    /\ threads[t].pc \in {"sched_loop", "sched_after", "sched_sleep"}
    /\ LET j == threads[t].job IN
        jobs' = [jobs EXCEPT ![j] = MarkFaulted(@)]
    /\ threads' = [threads EXCEPT ![t] = FaultedThread]
    /\ UNCHANGED <<procs, now, calls, stopped, pushed, budget, job_config>>

\* _monitor_job, lines 325-359: a statement of the try block raises, such as
\* readline on output that cannot be decoded; start_job (line 354) catches
\* what its own statements raise.
MonitorFault(t) ==
    /\ threads[t].kind = "monitor"
    /\ threads[t].pc \in {"mon_wait", "mon_auto", "mon_sleep"}
    /\ LET j == threads[t].job IN
        jobs' = [jobs EXCEPT ![j] = MarkFaulted(@)]
    /\ threads' = [threads EXCEPT ![t] = FaultedThread]
    /\ UNCHANGED <<procs, now, calls, stopped, pushed, budget, job_config>>

\* ---------------------------------------------------------- environment
ExitCodes == {0, 1}

\* A child ends by itself or on SIGTERM, with status 0 or not.
ProcExit(p, return_code) ==
    /\ alive(p)
    /\ procs' = [procs EXCEPT ![p] = [@ EXCEPT !.state = "exited", !.rc = return_code]]
    /\ UNCHANGED <<jobs, threads, now, calls, stopped, pushed, budget, job_config>>

\* datetime.now() advances.
Tick ==
    /\ now < budget.time
    /\ now' = now + 1
    /\ UNCHANGED <<jobs, threads, procs, calls, stopped, pushed, budget, job_config>>

Next ==
    \/ \E c \in Callers, j \in RequestIds : CallStart(c, j)
    \/ \E c \in Callers, j \in RequestIds : CallStop(c, j)
    \/ \E c \in Callers, j \in RequestIds : CallRestart(c, j)
    \/ \E t \in Threads : RestartSleep(t)
    \/ \E t \in Threads : StartCheck(t)
    \/ \E t \in Threads : StartReset(t)
    \/ \E t \in Threads : StartScheduledSet(t)
    \/ \E t \in Threads : StartScheduledSpawn(t)
    \/ \E t \in Threads : StartContinuousPopen(t)
    \/ \E t \in Threads : StartContinuousFail(t)
    \/ \E t \in Threads : StartContinuousSet(t)
    \/ \E t \in Threads : StartContinuousSpawn(t)
    \/ \E t \in Threads : StopCheck(t)
    \/ \E t \in Threads : StopTerminate(t)
    \/ \E t \in Threads : StopWait(t)
    \/ \E t \in Threads : StopKill(t)
    \/ \E t \in Threads : StopSet(t)
    \/ \E t \in Threads : MonitorInit(t)
    \/ \E t \in Threads : MonitorExit(t)
    \/ \E t \in Threads : MonitorAuto(t)
    \/ \E t \in Threads : MonitorRestart(t)
    \/ \E t \in Threads : ScheduleLoop(t)
    \/ \E t \in Threads : ExecutePopen(t)
    \/ \E t \in Threads : ExecuteFail(t)
    \/ \E t \in Threads : ExecuteWait(t)
    \/ \E t \in Threads : ScheduleAfterRun(t)
    \/ \E t \in Threads : ScheduleSleep(t)
    \/ \E p \in Pids, return_code \in ExitCodes : ProcExit(p, return_code)
    \/ Tick

Spec == Init /\ [][Next]_vars

\* The steps that read a job's status and logs, and those that queue output.
ReadSteps ==
    \/ \E c \in Callers, j \in RequestIds : CallStatus(c, j)
    \/ \E c \in Callers, j \in RequestIds, n \in 0..MaxLines : CallLogs(c, j, n)
    \/ \E t \in Threads : StatusGet(t)
    \/ \E t \in Threads : LogsGet(t)
    \/ \E t \in Threads : LogsAppend(t)
    \/ \E t \in Threads : MonitorReadLine(t)
    \/ \E t \in Threads : ExecuteReadLine(t)

InitRequests == InitWith([calls |-> MaxCalls, time |-> RestartDelay, output |-> MaxOutput])

NextRequests == Next \/ ReadSteps

SpecRequests == InitRequests /\ [][NextRequests]_vars

\* A scheduled job is started and, within the second of its first run, its
\* logs are read by concurrent requests.
InitLogs == InitWith([calls |-> MaxLogCalls, time |-> 0, output |-> MaxOutput]) /\ \A j \in JobIds : jobs[j].is_scheduled

NextLogs ==
    \/ \E c \in Callers, j \in JobIds : CallStart(c, j)
    \/ \E c \in Callers, j \in JobIds, n \in 0..MaxLines : CallLogs(c, j, n)
    \/ \E t \in Threads : LogsGet(t)
    \/ \E t \in Threads : LogsAppend(t)
    \/ \E t \in Threads : StartCheck(t)
    \/ \E t \in Threads : StartReset(t)
    \/ \E t \in Threads : StartScheduledSet(t)
    \/ \E t \in Threads : StartScheduledSpawn(t)
    \/ \E t \in Threads : ScheduleLoop(t)
    \/ \E t \in Threads : ExecutePopen(t)
    \/ \E t \in Threads : ExecuteFail(t)
    \/ \E t \in Threads : ExecuteReadLine(t)
    \/ \E t \in Threads : ExecuteWait(t)
    \/ \E t \in Threads : ScheduleAfterRun(t)
    \/ \E p \in Pids, return_code \in ExitCodes : ProcExit(p, return_code)

SpecLogs == InitLogs /\ [][NextLogs]_vars

\* A scheduled job is started once and left to run; its runs take any time.
InitTiming == InitWith([calls |-> 1, time |-> MaxRunTime, output |-> 0]) /\ \A j \in JobIds : jobs[j].is_scheduled

NextTiming ==
    \/ \E c \in Callers, j \in JobIds : CallStart(c, j)
    \/ \E t \in Threads : StartCheck(t)
    \/ \E t \in Threads : StartReset(t)
    \/ \E t \in Threads : StartScheduledSet(t)
    \/ \E t \in Threads : StartScheduledSpawn(t)
    \/ \E t \in Threads : ScheduleLoop(t)
    \/ \E t \in Threads : ExecutePopen(t)
    \/ \E t \in Threads : ExecuteFail(t)
    \/ \E t \in Threads : ExecuteWait(t)
    \/ \E t \in Threads : ScheduleAfterRun(t)
    \/ \E t \in Threads : ScheduleSleep(t)
    \/ \E p \in Pids, return_code \in ExitCodes : ProcExit(p, return_code)
    \/ Tick

SpecTiming == InitTiming /\ [][NextTiming]_vars

\* Every thread is blocked in a sleep that is not over, or has nothing to
\* do, and no child is running: a step of the code takes no time.
Quiescent ==
    /\ \A t \in Threads : threads[t].pc \in {"none", "idle", "done"} \/ (threads[t].pc = "sched_sleep" /\ now < threads[t].wake)
    /\ \A p \in Pids : ~alive(p)

\* A second passes while every thread sleeps.
TickQuiescent == Quiescent /\ Tick

\* The steps of a scheduled job whose command exits 0 as soon as it is launched.
ScenarioSteps ==
    \/ \E t \in Threads : StartCheck(t)
    \/ \E t \in Threads : StartReset(t)
    \/ \E t \in Threads : StartScheduledSet(t)
    \/ \E t \in Threads : StartScheduledSpawn(t)
    \/ \E t \in Threads : ScheduleLoop(t)
    \/ \E t \in Threads : ExecutePopen(t)
    \/ \E t \in Threads : ExecuteWait(t)
    \/ \E t \in Threads : ScheduleAfterRun(t)
    \/ \E t \in Threads : ScheduleSleep(t)
    \/ \E p \in Pids : ProcExit(p, 0)
    \/ TickQuiescent

InitScenario == InitWith([calls |-> 1, time |-> MaxScenarioTime, output |-> 0]) /\ \A j \in JobIds : jobs[j].is_scheduled

NextScenario == (\E c \in Callers, j \in JobIds : CallStart(c, j)) \/ ScenarioSteps

\* The threads are daemon threads of a live process and the children run to
\* their end: a step that stays possible is taken.
SpecScenario == InitScenario /\ [][NextScenario]_vars /\ WF_vars(ScenarioSteps)

\* JobManager.__init__, line 24: self.jobs = {}; nothing is registered yet.
InitRegister ==
    /\ job_config \in [JobIds -> Configs]
    /\ jobs = <<>>
    /\ threads = [t \in Threads |-> IF t \in Callers THEN IdleCaller ELSE NoThread]
    /\ procs = [p \in Pids |-> NoProc]
    /\ now = 0
    /\ calls = 0
    /\ stopped = [j \in JobIds |-> FALSE]
    /\ pushed = [j \in JobIds |-> <<>>]
    /\ budget = [calls |-> MaxCalls, time |-> 0, output |-> 0]

\* register_job, lines 30-56, under self._lock: a job that was not
\* registered gets its runtime state.
Register(j, config) ==
    /\ j \notin DOMAIN jobs
    /\ config = job_config[j]
    /\ jobs' = [k \in DOMAIN jobs \cup {j} |-> IF k = j THEN register_job(config) ELSE jobs[k]]
    /\ UNCHANGED <<threads, procs, now, calls, stopped, pushed, budget, job_config>>

\* Jobs are registered while start requests come in.
NextRegister ==
    \/ \E j \in JobIds, config \in Configs : Register(j, config)
    \/ \E c \in Callers, j \in JobIds : CallStart(c, j)
    \/ \E t \in Threads : StartCheck(t)
    \/ \E t \in Threads : StartReset(t)
    \/ \E t \in Threads : StartScheduledSet(t)
    \/ \E t \in Threads : StartScheduledSpawn(t)
    \/ \E t \in Threads : StartContinuousPopen(t)
    \/ \E t \in Threads : StartContinuousFail(t)
    \/ \E t \in Threads : StartContinuousSet(t)
    \/ \E t \in Threads : StartContinuousSpawn(t)

SpecRegister == InitRegister /\ [][NextRegister]_vars

\* No request is in progress: the requests come one after the other.
NoRequest == \A c \in Callers : threads[c].pc = "idle"

\* A continuous job is started and, while it is Running, restarted; the
\* requests come one at a time.
InitRestart == InitWith([calls |-> MaxCalls, time |-> MaxTime, output |-> 0]) /\ \A j \in JobIds : ~jobs[j].is_scheduled

\* A start request, made while no request is in progress.
StartAlone(c, j) == NoRequest /\ CallStart(c, j)

\* A restart request on a Running job, made while no request is in progress.
RestartRunning(c, j) == NoRequest /\ jobs[j].status = RUNNING /\ CallRestart(c, j)

NextRestart ==
    \/ \E c \in Callers, j \in JobIds : StartAlone(c, j)
    \/ \E c \in Callers, j \in JobIds : RestartRunning(c, j)
    \/ \E t \in Threads : RestartSleep(t)
    \/ \E t \in Threads : StartCheck(t)
    \/ \E t \in Threads : StartReset(t)
    \/ \E t \in Threads : StartContinuousPopen(t)
    \/ \E t \in Threads : StartContinuousFail(t)
    \/ \E t \in Threads : StartContinuousSet(t)
    \/ \E t \in Threads : StartContinuousSpawn(t)
    \/ \E t \in Threads : StopCheck(t)
    \/ \E t \in Threads : StopTerminate(t)
    \/ \E t \in Threads : StopWait(t)
    \/ \E t \in Threads : StopKill(t)
    \/ \E t \in Threads : StopSet(t)
    \/ \E t \in Threads : MonitorInit(t)
    \/ \E t \in Threads : MonitorExit(t)
    \/ \E t \in Threads : MonitorAuto(t)
    \/ \E t \in Threads : MonitorRestart(t)
    \/ \E p \in Pids, return_code \in ExitCodes : ProcExit(p, return_code)
    \/ Tick

SpecRestart == InitRestart /\ [][NextRestart]_vars

\* Two jobs, each of either mode, and requests of every kind on them.
InitPair == InitOf(PairIds, [calls |-> MaxCalls, time |-> RestartDelay, output |-> 0]) /\ \A j \in PairIds : jobs[j].max_restarts = 0

NextPair ==
    \/ \E c \in Callers, j \in PairIds : CallStart(c, j)
    \/ \E c \in Callers, j \in PairIds : CallStop(c, j)
    \/ \E c \in Callers, j \in PairIds : CallRestart(c, j)
    \/ \E c \in Callers, j \in PairIds : CallStatus(c, j)
    \/ \E c \in Callers, j \in PairIds : CallLogs(c, j, MaxLines)
    \/ \E t \in Threads : RestartSleep(t)
    \/ \E t \in Threads : StatusGet(t)
    \/ \E t \in Threads : LogsGet(t)
    \/ \E t \in Threads : LogsAppend(t)
    \/ \E t \in Threads : StartCheck(t)
    \/ \E t \in Threads : StartReset(t)
    \/ \E t \in Threads : StartScheduledSet(t)
    \/ \E t \in Threads : StartScheduledSpawn(t)
    \/ \E t \in Threads : StartContinuousPopen(t)
    \/ \E t \in Threads : StartContinuousFail(t)
    \/ \E t \in Threads : StartContinuousSet(t)
    \/ \E t \in Threads : StartContinuousSpawn(t)
    \/ \E t \in Threads : StopCheck(t)
    \/ \E t \in Threads : StopTerminate(t)
    \/ \E t \in Threads : StopWait(t)
    \/ \E t \in Threads : StopKill(t)
    \/ \E t \in Threads : StopSet(t)
    \/ \E t \in Threads : MonitorInit(t)
    \/ \E t \in Threads : MonitorExit(t)
    \/ \E t \in Threads : MonitorAuto(t)
    \/ \E t \in Threads : MonitorRestart(t)
    \/ \E t \in Threads : ScheduleLoop(t)
    \/ \E t \in Threads : ExecutePopen(t)
    \/ \E t \in Threads : ExecuteFail(t)
    \/ \E t \in Threads : ExecuteWait(t)
    \/ \E t \in Threads : ScheduleAfterRun(t)
    \/ \E t \in Threads : ScheduleSleep(t)
    \/ \E p \in Pids, return_code \in ExitCodes : ProcExit(p, return_code)
    \/ Tick

SpecPair == InitPair /\ [][NextPair]_vars

\* A stop request, made while no request is in progress.
StopAlone(c, j) == NoRequest /\ CallStop(c, j)

\* A logs request, made while no request is in progress.
LogsAlone(c, j) == NoRequest /\ CallLogs(c, j, MaxLines)

\* A job is started, its logs are read and it is stopped, one request at a
\* time, within a second.
InitStop == InitWith([calls |-> MaxLogCalls, time |-> 0, output |-> MaxOutput])

NextStop ==
    \/ \E c \in Callers, j \in JobIds : StartAlone(c, j)
    \/ \E c \in Callers, j \in JobIds : StopAlone(c, j)
    \/ \E c \in Callers, j \in JobIds : LogsAlone(c, j)
    \/ \E t \in Threads : LogsGet(t)
    \/ \E t \in Threads : LogsAppend(t)
    \/ \E t \in Threads : StartCheck(t)
    \/ \E t \in Threads : StartReset(t)
    \/ \E t \in Threads : StartScheduledSet(t)
    \/ \E t \in Threads : StartScheduledSpawn(t)
    \/ \E t \in Threads : StartContinuousPopen(t)
    \/ \E t \in Threads : StartContinuousFail(t)
    \/ \E t \in Threads : StartContinuousSet(t)
    \/ \E t \in Threads : StartContinuousSpawn(t)
    \/ \E t \in Threads : StopCheck(t)
    \/ \E t \in Threads : StopTerminate(t)
    \/ \E t \in Threads : StopWait(t)
    \/ \E t \in Threads : StopKill(t)
    \/ \E t \in Threads : StopSet(t)
    \/ \E t \in Threads : MonitorInit(t)
    \/ \E t \in Threads : MonitorReadLine(t)
    \/ \E t \in Threads : MonitorExit(t)
    \/ \E t \in Threads : MonitorAuto(t)
    \/ \E t \in Threads : ScheduleLoop(t)
    \/ \E t \in Threads : ExecutePopen(t)
    \/ \E t \in Threads : ExecuteFail(t)
    \/ \E t \in Threads : ExecuteReadLine(t)
    \/ \E t \in Threads : ExecuteWait(t)
    \/ \E t \in Threads : ScheduleAfterRun(t)
    \/ \E p \in Pids, return_code \in ExitCodes : ProcExit(p, return_code)

SpecStop == InitStop /\ [][NextStop]_vars

\* The steps of the threads of a continuous job, and the passing of time.
AutoSteps ==
    \/ \E t \in Threads : StartCheck(t)
    \/ \E t \in Threads : StartReset(t)
    \/ \E t \in Threads : StartContinuousPopen(t)
    \/ \E t \in Threads : StartContinuousFail(t)
    \/ \E t \in Threads : StartContinuousSet(t)
    \/ \E t \in Threads : StartContinuousSpawn(t)
    \/ \E t \in Threads : MonitorInit(t)
    \/ \E t \in Threads : MonitorExit(t)
    \/ \E t \in Threads : MonitorAuto(t)
    \/ \E t \in Threads : MonitorRestart(t)
    \/ Tick

\* A continuous job with auto_restart is started once and never stopped.
InitAuto == InitWith([calls |-> 1, time |-> MaxTime, output |-> 0]) /\ \A j \in JobIds : ~jobs[j].is_scheduled /\ jobs[j].auto_restart

NextAuto ==
    \/ \E c \in Callers, j \in JobIds : CallStart(c, j)
    \/ \E p \in Pids, return_code \in ExitCodes : ProcExit(p, return_code)
    \/ AutoSteps

\* The request thread and the monitor threads are threads of a live
\* process and the clock goes on: a step that stays possible is taken.  A
\* child may run for ever.
SpecAuto == InitAuto /\ [][NextAuto]_vars /\ WF_vars(AutoSteps)

\* Requests start, stop and restart a job whose threads may raise.
InitFault == InitWith([calls |-> MaxCalls, time |-> RestartDelay, output |-> 0])

NextFault ==
    \/ Next
    \/ \E t \in Threads : ScheduleFault(t)
    \/ \E t \in Threads : MonitorFault(t)

SpecFault == InitFault /\ [][NextFault]_vars

\* Nothing is registered yet and a job's configuration may lack run_interval.
InitMode ==
    /\ job_config \in [JobIds -> AnyConfigs]
    /\ jobs = <<>>
    /\ threads = [t \in Threads |-> IF t \in Callers THEN IdleCaller ELSE NoThread]
    /\ procs = [p \in Pids |-> NoProc]
    /\ now = 0
    /\ calls = 0
    /\ stopped = [j \in JobIds |-> FALSE]
    /\ pushed = [j \in JobIds |-> <<>>]
    /\ budget = [calls |-> MaxCalls, time |-> RestartDelay, output |-> 0]

\* Jobs are registered, started, stopped and restarted.
NextMode ==
    \/ \E j \in JobIds, config \in AnyConfigs : Register(j, config)
    \/ Next

SpecMode == InitMode /\ [][NextMode]_vars

\* The program starts: nothing is registered, the main thread is about to
\* call initialize_jobs, and job_config.py has a configuration for two jobs.
InitStartup ==
    /\ job_config \in [PairIds -> StartupConfigs]
    /\ jobs = <<>>
    /\ threads = [t \in Threads |-> IF t \in Callers THEN IdleCaller ELSE IF t = MainThread THEN [NoThread EXCEPT !.kind = "main", !.pc = "init_next"] ELSE NoThread]
    /\ procs = [p \in Pids |-> NoProc]
    /\ now = 0
    /\ calls = 0
    /\ stopped = [j \in PairIds |-> FALSE]
    /\ pushed = [j \in PairIds |-> <<>>]
    /\ budget = [calls |-> MaxCalls, time |-> 0, output |-> 0]

\* Initialization, then start requests, within the first second.
NextStartup ==
    \/ \E t \in Threads : InitializeRegister(t)
    \/ \E t \in Threads : InitializeReturn(t)
    \/ \E c \in Callers, j \in PairIds : ServeStart(c, j)
    \/ \E t \in Threads : StartCheck(t)
    \/ \E t \in Threads : StartReset(t)
    \/ \E t \in Threads : StartScheduledSet(t)
    \/ \E t \in Threads : StartScheduledSpawn(t)
    \/ \E t \in Threads : StartContinuousPopen(t)
    \/ \E t \in Threads : StartContinuousFail(t)
    \/ \E t \in Threads : StartContinuousSet(t)
    \/ \E t \in Threads : StartContinuousSpawn(t)
    \/ \E t \in Threads : MonitorInit(t)
    \/ \E t \in Threads : MonitorExit(t)
    \/ \E t \in Threads : MonitorAuto(t)
    \/ \E t \in Threads : ScheduleLoop(t)
    \/ \E t \in Threads : ExecutePopen(t)
    \/ \E t \in Threads : ExecuteFail(t)
    \/ \E t \in Threads : ExecuteWait(t)
    \/ \E t \in Threads : ScheduleAfterRun(t)
    \/ \E p \in Pids, return_code \in ExitCodes : ProcExit(p, return_code)

SpecStartup == InitStartup /\ [][NextStartup]_vars

TypeOK ==
    /\ \A j \in JobIds : jobs[j].status \in JobStatus
    /\ now \in 0..budget.time
    /\ calls \in 0..budget.calls

\* ------------------------------------------------------ steps, by thread
StartBody == {"start_reset", "sched_set", "sched_spawn", "cont_popen", "cont_set", "cont_spawn"}

StopBody == {"stop_check", "stop_term", "stop_wait", "stop_set"}

\* Thread t takes a step of start_job, past its status check, on job j.
StartStep(t, j) == threads[t].job = j /\ threads[t].pc \in StartBody /\ threads'[t] # threads[t]

\* A request thread takes a step of a start call that takes effect on job j.
CallerStartStep(j) == \E c \in Callers : StartStep(c, j)

\* Thread t takes a step of stop_job on job j.
StopStep(t, j) == threads[t].job = j /\ threads[t].pc \in StopBody /\ threads'[t] # threads[t]

\* A child process of job j is launched in this step.
Launch(j) == \E p \in Pids : procs[p].state = "unborn" /\ procs'[p].state = "alive" /\ procs'[p].job = j

\* The children of job j that a monitor thread's auto-restart launched.
Relaunched(j) == {p \in Pids : procs[p].job = j /\ procs[p].by = "monitor"}

\* ---------------------------------------------------------------- claims
\* C1: in every reachable state each job has at most one live child process.
C1_AtMostOneChild == \A j \in JobIds : Cardinality(ChildrenOf(j)) <= 1

\* C2: the status check and the transition of start(id) are atomic: two
\* start calls of request threads on one job are never both past the check.
C2_StartAtomic == \A c, d \in Callers : (c # d /\ threads[c].op = "start" /\ threads[d].op = "start" /\ threads[c].job = threads[d].job /\ threads[c].pc \in StartBody) => threads[d].pc \notin StartBody

\* C3: once stop has set a continuous job to Stopped, its status stays
\* Stopped until a start call of a request thread changes it.
C3_StoppedStays == [][\A j \in JobIds : (~jobs[j].is_scheduled /\ jobs[j].status = STOPPED /\ jobs'[j].status # STOPPED) => CallerStartStep(j)]_vars

\* C4: after stop(id) has returned success and until a request thread calls
\* start or restart, no child process of the job is launched.
C4_NoLaunchAfterStop == [][\A j \in JobIds : stopped[j] => ~Launch(j)]_vars

\* C5: when stop returns success for a job that was Running or Scheduled,
\* the job has no live child process and end_time is recorded.
C5_StopTerminatesChild == [][\A t \in Threads, j \in JobIds : (threads[t].pc = "stop_set" /\ StopStep(t, j)) => (ChildrenOf(j)' = {} /\ jobs'[j].end_time # None)]_vars

\* C6: after one manual start, a continuous job with auto_restart is
\* relaunched automatically at most max_restarts times.
C6_RelaunchesBounded == \A j \in JobIds : (~jobs[j].is_scheduled /\ jobs[j].auto_restart /\ jobs[j].max_restarts >= 1 /\ calls = 1) => Cardinality(Relaunched(j)) <= jobs[j].max_restarts

\* C7: between two start calls of request threads restart_count never
\* decreases; the automatic relaunch increments it and does not reset it.
C7_RestartCountMonotone == [][\A j \in JobIds : jobs'[j].restart_count < jobs[j].restart_count => CallerStartStep(j)]_vars

\* A request thread takes a step of a start or stop call on job j.
CallerStep(j) == \E c \in Callers : StartStep(c, j) \/ StopStep(c, j)

\* C8: a continuous job that is Completed stays Completed, and no child of
\* it is launched, until a call of a request thread acts on it.
C8_CompletedStays == [][\A j \in JobIds : (~jobs[j].is_scheduled /\ jobs[j].status = COMPLETED) => (CallerStep(j) \/ (jobs'[j].status = COMPLETED /\ ~Launch(j)))]_vars

\* Thread t ends a failed run of job j: Popen raised or the exit status is not 0.
RunFails(t, j) == threads[t].job = j /\ threads[t].pc \in {"exec_popen", "exec_wait"} /\ threads'[t].pc = "sched_after" /\ ~threads'[t].success

\* Thread t, after a run of job j, takes the give-up test of line 166.
DecidesAfterRun(t, j) == threads[t].job = j /\ threads[t].pc = "sched_after" /\ threads'[t] # threads[t]

\* C9: a failed scheduled run increments restart_count by exactly one; the
\* loop then sets the job Failed and exits if and only if the run failed and
\* restart_count >= max_restarts, and otherwise leaves the status alone and
\* goes on ticking; a scheduled job never becomes Failed while
\* restart_count < max_restarts.
C9_ScheduledFailurePolicy == [][\A j \in JobIds : /\ \A t \in Threads : RunFails(t, j) => jobs'[j].restart_count = jobs[j].restart_count + 1
                                                  /\ \A t \in Threads : DecidesAfterRun(t, j) => IF ~threads[t].success /\ jobs[j].restart_count >= jobs[j].max_restarts THEN jobs'[j].status = FAILED /\ threads'[t].pc = "done" ELSE jobs'[j].status = jobs[j].status /\ threads'[t].pc = "sched_sleep"
                                                  /\ (jobs[j].is_scheduled /\ jobs[j].status # FAILED /\ jobs'[j].status = FAILED) => jobs'[j].restart_count >= jobs[j].max_restarts]_vars

\* A scheduled job with max_restarts = 2 stayed Scheduled after its first
\* failed run and was given up at its second.
C9_Witness == \E j \in JobIds : jobs[j].is_scheduled /\ jobs[j].max_restarts = 2 /\ jobs[j].restart_count = 2 /\ jobs[j].status = FAILED /\ jobs[j].run_count = 2

StartChecks(t, j) == threads[t].job = j /\ threads[t].pc = "start_check" /\ threads'[t] # threads[t]

\* No thread is started in this step.
NoThreadSpawned == \A u \in Threads : threads[u].kind = "none" => threads'[u].kind = "none"

\* C11: start on a registered job whose status is Running or Scheduled
\* returns success and changes nothing: the job's record (status, counters,
\* timestamps, logs, pipe) and the process table are as before and no thread
\* is started.
C11_StartOnActiveIsNoOp == [][\A j \in JobIds, t \in Threads : (StartChecks(t, j) /\ jobs[j].status \in {RUNNING, SCHEDULED}) => (jobs' = jobs /\ procs' = procs /\ NoThreadSpawned /\ (t \in Callers => threads'[t].pc = "idle" /\ threads'[t].ret = "True"))]_vars

\* Two start requests on a continuous job both returned success, one child
\* was ever launched and it has written a line: the second start was a no-op.
C11_Witness == \E j \in JobIds, c, d \in Callers : c # d /\ threads[c].pc = "idle" /\ threads[d].pc = "idle" /\ threads[c].op = "start" /\ threads[d].op = "start" /\ threads[c].job = j /\ threads[d].job = j /\ threads[c].ret = "True" /\ threads[d].ret = "True" /\ jobs[j].status = RUNNING /\ jobs[j].log_queue # <<>> /\ Cardinality(FreePids) = MaxProcs - 1

\* Thread t takes the step of start_job that it is at pc for, on job j.
StartAt(t, j, pc) == threads[t].job = j /\ threads[t].pc = pc /\ threads'[t] # threads[t]

\* The threads started in this step.
Spawned == {u \in Threads : threads[u].kind = "none" /\ threads'[u].kind # "none"}

\* Exactly one thread is started in this step: one of this kind, for job j, at pc.
SpawnsOne(kind, j, pc) == Cardinality(Spawned) = 1 /\ \A u \in Spawned : threads'[u].kind = kind /\ threads'[u].job = j /\ threads'[u].pc = pc

\* The children launched in this step.
Launched == {p \in Pids : procs[p].state = "unborn" /\ procs'[p].state = "alive"}

\* What each step of start_job past its status check does, for thread t on job j.
DispatchStep(t, j) ==
    /\ (StartChecks(t, j) /\ jobs[j].status \in {STOPPED, FAILED, COMPLETED}) => threads'[t].pc = "start_reset"
    /\ StartAt(t, j, "start_reset") => threads'[t].pc = (IF jobs[j].run_interval > 0 THEN "sched_set" ELSE "cont_popen")
    /\ StartAt(t, j, "sched_set") => (jobs'[j].status = SCHEDULED /\ jobs'[j].next_run_time = now /\ threads'[t].pc = "sched_spawn" /\ Launched = {})
    /\ StartAt(t, j, "sched_spawn") => (SpawnsOne("scheduler", j, "sched_loop") /\ Launched = {} /\ (t \in Callers => threads'[t].pc = "idle" /\ threads'[t].ret = "True"))
    /\ (StartAt(t, j, "cont_popen") /\ threads'[t].pc = "cont_set") => (Cardinality(Launched) = 1 /\ Launched = {threads'[t].proc} /\ procs'[threads'[t].proc].job = j)
    /\ StartAt(t, j, "cont_set") => (jobs'[j].status = RUNNING /\ jobs'[j].process = threads[t].proc /\ threads'[t].pc = "cont_spawn")
    /\ StartAt(t, j, "cont_spawn") => (SpawnsOne("monitor", j, "mon_init") /\ Launched = {} /\ (t \in Callers => threads'[t].pc = "idle" /\ threads'[t].ret = "True"))

\* C12: start on a registered job that is Stopped, Failed or Completed
\* dispatches by mode.  A scheduled job gets status Scheduled and
\* next_run_time = now, then exactly one scheduling-loop thread, and start
\* returns success.  A continuous job whose launch does not raise has
\* exactly one child launched, then status Running with that child as its
\* process, then exactly one monitor thread, and start returns success.
C12_StartDispatches == [][\A j \in JobIds, t \in Threads : DispatchStep(t, j)]_vars

\* The one start request made so far, on a Stopped scheduled job, has
\* returned success: the job is Scheduled, due now, with its loop started.
C12_Witness == \E j \in JobIds, c \in Callers : calls = 1 /\ threads[c].pc = "idle" /\ threads[c].op = "start" /\ threads[c].job = j /\ threads[c].ret = "True" /\ jobs[j].is_scheduled /\ jobs[j].status = SCHEDULED /\ jobs[j].next_run_time = now /\ jobs[j].scheduler_thread # None /\ threads[jobs[j].scheduler_thread].pc = "sched_loop"

\* Thread t takes the status check of stop_job on job j.
StopChecks(t, j) == threads[t].job = j /\ threads[t].pc = "stop_check" /\ threads'[t] # threads[t]

\* C13: stop on a registered job whose status is Stopped, Failed or
\* Completed returns success and changes nothing: the job's record (status,
\* end_time, counters, logs) is as before and no process is signalled.
C13_StopOnInactiveIsNoOp == [][\A j \in JobIds, t \in Threads : (StopChecks(t, j) /\ jobs[j].status \in {STOPPED, FAILED, COMPLETED}) => (jobs' = jobs /\ procs' = procs /\ NoThreadSpawned /\ (threads[t].op = "stop" => threads'[t].pc = "idle" /\ threads'[t].ret = "True"))]_vars

\* The one request made so far was a stop of a job that was never started:
\* it returned success and the job is Stopped with no end_time.
C13_Witness == \E j \in JobIds, c \in Callers : calls = 1 /\ threads[c].pc = "idle" /\ threads[c].op = "stop" /\ threads[c].job = j /\ threads[c].ret = "True" /\ jobs[j].status = STOPPED /\ jobs[j].end_time = None

\* What a call on an id that is not registered returns.
NotRegistered(op) == CASE op \in {"start", "stop", "restart"} -> "False" [] op = "status" -> "None" [] op = "logs" -> "list"

\* The step that restart_job, which ignores what stop_job returned, takes next.
RestartPath(pc) == CASE pc = "stop_check" -> "restart_sleep" [] pc = "restart_sleep" -> "start_check" [] pc = "start_check" -> "idle"

\* Request thread c takes a step of a call on the unregistered id u.
UnregisteredStep(c, u) == threads[c].job = u /\ threads[c].pc # "idle" /\ threads'[c] # threads[c]

\* What a step of a call on an unregistered id does: nothing but move the
\* call on, and answer it when it ends.
UnregisteredEffect(c) ==
    /\ jobs' = jobs
    /\ procs' = procs
    /\ NoThreadSpawned
    /\ threads'[c].pc = (IF threads[c].op = "restart" THEN RestartPath(threads[c].pc) ELSE "idle")
    /\ threads'[c].pc = "idle" => (threads'[c].ret = NotRegistered(threads[c].op) /\ threads'[c].out = <<>>)

\* C14: for an id that is not registered, start, stop and restart return
\* failure, status returns None (not found) and logs returns the empty list,
\* and no step of these calls changes the registry, the record of any
\* registered job, any process or the set of threads.
C14_UnregisteredId == [][\A u \in UnregisteredIds, c \in Callers : UnregisteredStep(c, u) => UnregisteredEffect(c)]_vars

\* Restart and status requests on the unregistered id have both been
\* answered, restart with failure and status with None.
C14_Witness == \E u \in UnregisteredIds, c, d \in Callers : threads[c].pc = "idle" /\ threads[c].op = "restart" /\ threads[c].job = u /\ threads[c].ret = "False" /\ threads[d].pc = "idle" /\ threads[d].op = "status" /\ threads[d].job = u /\ threads[d].ret = "None"

\* The last n entries of a history, in its order; all of it if it has fewer.
LastEntries(history, n) == SubSeq(history, (IF Len(history) > n THEN Len(history) - n ELSE 0) + 1, Len(history))

\* Request thread c returns from get_job_logs on the registered job j.
LogsReturns(c, j) == threads[c].job = j /\ threads[c].pc = "logs_get" /\ threads'[c].pc = "idle"

\* C15: for every max_lines >= 0, logs(id, max_lines) returns at most
\* max_lines entries, namely the last max_lines entries of the retained
\* history in its order, with the pipe drained into the history first.
C15_LogsAtMostMaxLines == [][\A j \in JobIds, c \in Callers : LogsReturns(c, j) => (Len(threads'[c].out) <= threads[c].lines /\ threads'[c].out = LastEntries(jobs'[j].logs, threads[c].lines) /\ jobs'[j].log_queue = <<>>)]_vars

\* s can be got from t by leaving entries out: each entry of s is an entry
\* of t of its own, and the entries of s are in the order t has them in.
RECURSIVE IsSubsequence(_, _)
IsSubsequence(s, t) == IF s = <<>> THEN TRUE ELSE IF t = <<>> THEN FALSE ELSE IF Head(s) = Head(t) THEN IsSubsequence(Tail(s), Tail(t)) ELSE IsSubsequence(s, Tail(t))

\* C16: without locking, whatever the interleaving of the run's producer
\* with concurrent logs calls, the retained history holds the drained
\* entries once each and in the order in which the producer pushed them.
C16_LogHandoffOrdered == \A j \in JobIds : IsSubsequence(jobs[j].logs, pushed[j])

\* The retained history of job j is as it was, or has one entry appended.
HistoryKept(j) == jobs'[j].logs = jobs[j].logs \/ (\E t \in Threads : threads[t].job = j /\ threads[t].pc = "logs_append" /\ jobs'[j].logs = Append(jobs[j].logs, threads[t].entry))

HistoryStep(j) ==
    /\ HistoryKept(j) \/ (\E t \in Threads : StartAt(t, j, "cont_popen") /\ ~jobs[j].is_scheduled)
    /\ \A t \in Threads : StartAt(t, j, "cont_popen") => (jobs'[j].logs = <<>> /\ jobs'[j].log_queue = <<>>)
    /\ \A t \in Threads : StopStep(t, j) => (jobs'[j].logs = jobs[j].logs /\ jobs'[j].log_queue = jobs[j].log_queue)
    /\ jobs[j].is_scheduled => HistoryKept(j)

LoopTest(t, j) == threads[t].job = j /\ threads[t].pc = "sched_loop" /\ threads'[t] # threads[t]

\* What a step does to the run count and the runs of job j.
RunStep(j) ==
    /\ \A t \in Threads : (LoopTest(t, j) /\ jobs[j].status = SCHEDULED /\ now >= jobs[j].next_run_time) => (jobs'[j].run_count = jobs[j].run_count + 1 /\ jobs'[j].last_run_time = now /\ threads'[t].pc = "exec_popen" /\ Spawned = {})
    /\ \A t \in Threads : (LoopTest(t, j) /\ ~(jobs[j].status = SCHEDULED /\ now >= jobs[j].next_run_time)) => (jobs'[j].run_count = jobs[j].run_count /\ threads'[t].pc # "exec_popen")
    /\ \A t \in Threads : StartAt(t, j, "exec_popen") => \/ (threads'[t].pc = "exec_wait" /\ Launched = {threads'[t].proc} /\ procs'[threads'[t].proc].job = j)
                                                          \/ (threads'[t].pc = "sched_after" /\ Launched = {})
    /\ \A t \in Threads : (threads[t].kind = "scheduler" /\ threads[t].job = j /\ threads[t].pc # "exec_popen" /\ threads'[t] # threads[t]) => Launched = {}
    /\ jobs'[j].run_count # jobs[j].run_count => \E t \in Threads : LoopTest(t, j) /\ threads'[t].pc = "exec_popen" /\ jobs'[j].run_count = jobs[j].run_count + 1

\* C18: in a scheduling loop, each tick at which the job is Scheduled and
\* now >= next_run_time adds exactly one to run_count, sets last_run_time
\* to the time of the tick and executes one run in the loop's own thread
\* (one launch, or one launch that raises); a tick that is not due runs
\* nothing; nothing else changes run_count.
C18_OneRunPerDueTick == [][\A j \in JobIds : RunStep(j)]_vars

\* After one start request a scheduled job has begun its second run, at the
\* tick at which it fell due.
C18_Witness == \E j \in JobIds, t \in Threads : calls = 1 /\ threads[t].kind = "scheduler" /\ threads[t].job = j /\ threads[t].pc = "exec_popen" /\ jobs[j].run_count = 2 /\ jobs[j].last_run_time = now /\ now = jobs[j].next_run_time

\* Scheduler thread t begins a run of job j in this step.
BeginsRun(t, j) == LoopTest(t, j) /\ threads'[t].pc = "exec_popen"

\* What the loop does with the due time of job j.
DueStep(j) ==
    /\ \A t \in Threads : DecidesAfterRun(t, j) => jobs'[j].next_run_time = now + jobs[j].run_interval
    /\ \A t \in Threads : BeginsRun(t, j) => (now >= jobs[j].next_run_time /\ ChildrenOf(j) = {} /\ threads[t].proc = None)
    /\ jobs'[j].next_run_time # jobs[j].next_run_time => \E t \in Threads : DecidesAfterRun(t, j) \/ StartAt(t, j, "sched_set")

\* C19: in a scheduling loop, when a run completes at time t the next due
\* time is set to t + interval whatever the run's outcome and duration, and
\* no run starts before next_run_time or while the run before it is alive.
C19_NextDueFromCompletion == [][\A j \in JobIds : DueStep(j)]_vars

\* The loop's first run began at 0, launched a child that exited non-zero,
\* and completed (line 164) at 3, longer than the interval of 2 after it
\* began; the next due time is 5.
C19_Witness == \E j \in JobIds, t \in Threads, p \in Pids : threads[t].kind = "scheduler" /\ threads[t].job = j /\ threads[t].pc = "sched_sleep" /\ procs[p].job = j /\ exited(p) /\ procs[p].rc = 1 /\ jobs[j].run_count = 1 /\ jobs[j].last_run_time = 0 /\ jobs[j].restart_count = 1 /\ now = 3 /\ jobs[j].next_run_time = 3 + jobs[j].run_interval

\* The time at which the last run of job j completed (line 164 adds the interval to it).
Completion(job) == job.next_run_time - job.run_interval

\* The last run of the job took longer than the interval.
LongRun(job) == job.run_count >= 1 /\ Completion(job) - job.last_run_time > job.run_interval

\* C20 as stated: if a scheduled run takes longer than the interval, the
\* next run begins immediately after it completes (at the loop's next
\* test), never overlapping it.
C20_NextRunImmediately == [][\A j \in JobIds, t \in Threads : (LoopTest(t, j) /\ jobs[j].status = SCHEDULED /\ LongRun(jobs[j])) => (BeginsRun(t, j) /\ ChildrenOf(j) = {})]_vars

\* C20, amended: if a scheduled run takes longer than the interval, the
\* next run begins at the loop's first test at which one interval has passed
\* since the run completed, and not before, never overlapping it.
C20_NextRunAfterInterval == [][\A j \in JobIds, t \in Threads : (LoopTest(t, j) /\ jobs[j].status = SCHEDULED /\ LongRun(jobs[j])) => ((BeginsRun(t, j) <=> now >= Completion(jobs[j]) + jobs[j].run_interval) /\ ChildrenOf(j) = {})]_vars

\* The first run, which launched a child, took longer than the interval
\* from its start to its completion; one interval after the completion the
\* loop is at its test, which begins the second run.
C20_Witness == \E j \in JobIds, t \in Threads, p \in Pids : threads[t].kind = "scheduler" /\ threads[t].job = j /\ threads[t].pc = "sched_loop" /\ procs[p].job = j /\ exited(p) /\ jobs[j].status = SCHEDULED /\ LongRun(jobs[j]) /\ jobs[j].run_count = 1 /\ now = Completion(jobs[j]) + jobs[j].run_interval

\* Job j was started at least n seconds ago.
StartedFor(j, n) == jobs[j].start_time # None /\ now >= jobs[j].start_time + n

\* C21: a scheduled job whose runs all exit 0 and that is never stopped
\* stays Scheduled and keeps running: with an interval of RunInterval
\* seconds, a tick of one second and a command that takes no time, once it
\* is Scheduled it stays Scheduled, and it comes to the fifth second after
\* its start with run_count >= 2 and status Scheduled.
C21_ScheduledKeepsRunning ==
    /\ [][\A j \in JobIds : jobs[j].status = SCHEDULED => jobs'[j].status = SCHEDULED]_vars
    /\ \A j \in JobIds : (jobs[j].status = SCHEDULED /\ jobs[j].start_time + 5 <= budget.time) ~> (StartedFor(j, 5) /\ jobs[j].run_count >= 2 /\ jobs[j].status = SCHEDULED)
    /\ [](\A j \in JobIds : StartedFor(j, 5) => (jobs[j].run_count >= 2 /\ jobs[j].status = SCHEDULED))

\* Five seconds after its start the job is Scheduled, its loop asleep
\* between ticks, with three runs begun (at 0, 2 and 4 seconds).
C21_Witness == \E j \in JobIds, t \in Threads : jobs[j].start_time # None /\ now = jobs[j].start_time + 5 /\ jobs[j].status = SCHEDULED /\ jobs[j].run_count >= 2 /\ threads[t].kind = "scheduler" /\ threads[t].job = j /\ threads[t].pc = "sched_sleep"

\* The supervising threads alive for job j: its scheduling loops, and its
\* monitors up to the exit of the child they watch.
Supervising(j) == {t \in Threads : threads[t].job = j /\ (threads[t].kind = "scheduler" \/ (threads[t].kind = "monitor" /\ threads[t].pc \in {"mon_init", "mon_wait"}))}

\* No thread is inside start_job, stop_job or restart_job for job j.
Settled(j) == \A t \in Threads : threads[t].job = j => threads[t].pc \notin (StartBody \cup StopBody \cup {"start_check", "restart_sleep"})

\* C22: in every reachable state in which no start, stop or restart of the
\* job is in progress, the job's status is Running or Scheduled if and only
\* if exactly one supervising thread (monitor or scheduling loop) is alive
\* for it: none after stop, one after stop followed by start.
C22_StatusIffOneSupervisor == \A j \in JobIds : Settled(j) => (jobs[j].status \in {RUNNING, SCHEDULED} <=> Cardinality(Supervising(j)) = 1)

\* Request thread c returns from restart_job on job j.
RestartReturns(c, j) == threads[c].op = "restart" /\ threads[c].job = j /\ threads[c].pc # "idle" /\ threads'[c].pc = "idle"

\* Request thread c, in restart_job on job j, comes to pc in this step.
RestartComesTo(c, j, pc) == threads[c].op = "restart" /\ threads[c].job = j /\ threads[c].pc # pc /\ threads'[c].pc = pc

\* What a step of restart_job does, for request thread c on job j.
RestartStep(c, j) ==
    /\ RestartComesTo(c, j, "restart_sleep") => threads[c].pc \in {"stop_check", "stop_set"}
    /\ RestartComesTo(c, j, "start_check") => threads[c].pc = "restart_sleep"
    /\ RestartReturns(c, j) => (threads[c].pc \in {"start_check", "cont_popen", "cont_spawn"} /\ threads'[c].ret = (IF threads[c].pc = "cont_popen" THEN "False" ELSE "True"))
    /\ (RestartReturns(c, j) /\ threads'[c].ret = "True") => (jobs'[j].status = RUNNING /\ jobs'[j].process # None /\ ~procs'[jobs'[j].process].signalled /\ ChildrenOf(j)' \subseteq {jobs'[j].process})

\* C23: restart(id) runs stop to completion before start is attempted and
\* returns exactly the outcome of that start; when restart(id) of a Running
\* continuous job returns success, the previous child is no longer alive
\* and the job is Running with one child, its process, launched since the
\* stop: no other child of the job is alive.
C23_RestartStopsThenStarts == [][\A j \in JobIds, c \in Callers : RestartStep(c, j)]_vars

\* Thread t, launching a child of job j, finds that Popen raises.
LaunchFails(t, j) == threads[t].job = j /\ threads'[t] # threads[t] /\ ((threads[t].pc = "exec_popen" /\ threads'[t].pc = "sched_after") \/ (threads[t].pc = "cont_popen" /\ threads'[t].pc # "cont_set"))

\* The step puts one entry of level ERROR into the log pipe of job j.
PutsError(j) == Len(pushed'[j]) = Len(pushed[j]) + 1 /\ pushed'[j][Len(pushed'[j])].level = "ERROR" /\ jobs'[j].log_queue # <<>> /\ jobs'[j].log_queue[Len(jobs'[j].log_queue)] = pushed'[j][Len(pushed'[j])]

\* The thread whose launch failed goes on with a failure as the result: a
\* failed run for a scheduling loop, False for a start call.
ReportsFailure(t) == IF threads[t].pc = "exec_popen" THEN ~threads'[t].success ELSE (threads'[t].pc \in {"idle", "done"} /\ (threads[t].kind = "caller" => threads'[t].ret = "False"))

\* C24: in both modes, when the child process cannot be spawned the
\* failure is not raised to the caller: an ERROR entry is pushed onto the
\* job's log pipe, restart_count is incremented by one, and the attempt is
\* reported as a failed run or an error result.
C24_LaunchFailureRecorded == [][\A j \in JobIds, t \in Threads : LaunchFails(t, j) => (PutsError(j) /\ jobs'[j].restart_count = jobs[j].restart_count + 1 /\ ReportsFailure(t))]_vars

\* Thread t returns failure from start_job on the registered job j.
StartFails(t, j) == threads[t].job = j /\ threads[t].pc \in (StartBody \cup {"start_check"}) /\ threads'[t].pc \in {"idle", "done"} /\ (threads[t].kind = "caller" => threads'[t].ret = "False") /\ (threads[t].kind # "caller" => threads[t].pc = "cont_popen")

\* What a start call that fails does, for thread t on job j.
FailedStartStep(t, j) ==
    /\ (LaunchFails(t, j) /\ threads[t].pc = "cont_popen") => StartFails(t, j)
    /\ StartFails(t, j) => (threads[t].pc = "cont_popen" /\ jobs'[j].status = FAILED /\ Launched = {} /\ Spawned = {} /\ jobs'[j].process = jobs[j].process /\ jobs'[j].thread = jobs[j].thread /\ ChildrenOf(j)' = ChildrenOf(j))

StepOf(t, a) == threads'[t] # threads[t] /\ (IF threads[t].pc \in {"idle", "none"} THEN threads'[t].job = a ELSE threads[t].job = a)

\* A child of job a is launched, is signalled or exits.
ChildStep(p, a) == procs'[p] # procs[p] /\ procs'[p].job = a

\* The step is a step of job a: of one of its threads or of one of its children.
Acts(a) == (\E t \in Threads : StepOf(t, a)) \/ (\E p \in Pids : ChildStep(p, a))

\* The step leaves the runtime state of job b as it is: its record, the
\* entries of its pipe, its children and the threads working for it.
Untouched(b) ==
    /\ jobs'[b] = jobs[b]
    /\ pushed'[b] = pushed[b]
    /\ ChildrenOf(b)' = ChildrenOf(b)
    /\ \A p \in Pids : procs[p].job = b => procs'[p] = procs[p]
    /\ \A t \in Threads : (threads[t].job = b /\ threads[t].pc # "idle") => threads'[t] = threads[t]

C27_NextRunOnlyWhileScheduled == \A j \in JobIds : jobs[j].next_run_time # None => jobs[j].status = SCHEDULED

\* Job j is registered in this step.
Registers(j) == j \notin DOMAIN jobs /\ j \in DOMAIN jobs'

\* The runtime state of a job that has just been registered.
Fresh(job) ==
    /\ job.status = STOPPED
    /\ job.restart_count = 0 /\ job.run_count = 0
    /\ job.logs = <<>> /\ job.log_queue = <<>>
    /\ job.process = None
    /\ job.thread = None /\ job.scheduler_thread = None
    /\ job.start_time = None /\ job.end_time = None /\ job.last_run_time = None /\ job.next_run_time = None

\* C28: register(definition) creates a runtime state with status Stopped,
\* restart_count 0, run_count 0, an empty retained log buffer and an empty
\* log pipe, no process handle, no supervising thread and all timestamps
\* absent; registering launches no child and starts no thread.
C28_RegisterCreatesFresh == [][\A j \in JobIds : Registers(j) => (Fresh(jobs'[j]) /\ procs' = procs /\ threads' = threads)]_vars

\* A scheduled job was registered after a start request on its id had
\* been refused; it is Stopped and nothing runs.
C28_Witness == \E j \in JobIds, c \in Callers : j \in DOMAIN jobs /\ jobs[j].is_scheduled /\ Fresh(jobs[j]) /\ threads[c].pc = "idle" /\ threads[c].op = "start" /\ threads[c].job = j /\ threads[c].ret = "False" /\ FreePids = Pids /\ FreeThreads = Threads \ Callers

\* What a step of stop_job, taken by thread t on job j, changes and leaves.
StopFrame(t, j) ==
    /\ [jobs'[j] EXCEPT !.status = jobs[j].status, !.end_time = jobs[j].end_time] = jobs[j]
    /\ jobs'[j].status \in {jobs[j].status, STOPPED}
    /\ pushed' = pushed
    /\ \A p \in Pids : procs'[p] # procs[p] => (p = jobs[j].process /\ procs[p].state = "alive" /\ procs'[p].job = procs[p].job)
    /\ \A u \in Threads : u # t => threads'[u] = threads[u]

\* C29: stop(id) retains the job's accrued state: it leaves run_count, the
\* retained log history and the entries still queued in the log pipe
\* unchanged (and every other field of the record), changing only status,
\* end_time and the liveness of the child.
C29_StopRetainsState == [][\A j \in JobIds, t \in Threads : StopStep(t, j) => StopFrame(t, j)]_vars

\* A stop request has returned success: the job is Stopped with end_time
\* set, and still has the run it counted, a retained log entry and an entry
\* queued in its pipe.
C29_Witness == \E j \in JobIds, c \in Callers : threads[c].pc = "idle" /\ threads[c].op = "stop" /\ threads[c].job = j /\ threads[c].ret = "True" /\ jobs[j].status = STOPPED /\ jobs[j].end_time # None /\ jobs[j].run_count = 1 /\ jobs[j].logs # <<>> /\ jobs[j].log_queue # <<>>

\* A continuous job with auto_restart is Failed and has restarts left.
FailedWithRestartsLeft(j) == ~jobs[j].is_scheduled /\ jobs[j].auto_restart /\ jobs[j].status = FAILED /\ jobs[j].restart_count < jobs[j].max_restarts

\* A monitor thread re-invokes start_job for job j (line 354), or the job is Running again.
Restarting(j) == jobs[j].status = RUNNING \/ (\E t \in Threads : threads[t].kind = "monitor" /\ threads[t].job = j /\ threads[t].pc = "start_check")

\* The restart delay of a monitor thread of job j ends after the last second of the run.
DelayedBeyond(j) == \E t \in Threads : threads[t].kind = "monitor" /\ threads[t].job = j /\ threads[t].pc = "mon_sleep" /\ threads[t].wake > budget.time

\* C30: a continuous job with auto_restart that becomes Failed, because its
\* child exited non-zero or because the launch raised, is automatically
\* re-started after restart_delay (unless the delay ends after the last
\* second of the run), provided no stop intervenes and restarts are left.
C30_FailedIsRestarted == \A j \in JobIds : FailedWithRestartsLeft(j) ~> (Restarting(j) \/ DelayedBeyond(j))

\* Supervising thread t of job j catches a fault in this step.
Catches(t, j) == threads[t].job = j /\ threads[t].ret # "caught" /\ threads'[t].ret = "caught"

\* What the step in which thread t catches its fault does to job j and to
\* everything else.
CaughtStep(t, j) ==
    /\ jobs'[j].status = FAILED
    /\ jobs'[j].end_time = now
    /\ threads'[t].pc = "done"
    /\ procs' = procs
    /\ \A u \in Threads : u # t => threads'[u] = threads[u]
    /\ Spawned = {}

\* C31: an unexpected fault raised inside a job's scheduling loop or monitor
\* thread is caught there: the job's status becomes Failed with end_time
\* recorded, the thread ends, and nothing reaches the request threads, the
\* other threads or the children; no request is ever answered with the fault.
C31_SupervisionFaultCaught ==
    /\ [][\A j \in JobIds, t \in Threads : Catches(t, j) => CaughtStep(t, j)]_vars
    /\ [](\A c \in Callers : threads[c].ret # "caught" /\ threads[c].kind = "caller")

\* A supervising thread of the job has caught a fault and ended, leaving an
\* end_time; the job is active and a start request has returned success.
C31_Witness == \E j \in JobIds, t \in Threads, c \in Callers : threads[t] = FaultedThread /\ jobs[j].status \in {RUNNING, SCHEDULED} /\ jobs[j].end_time # None /\ calls = 2 /\ threads[c].pc = "idle" /\ threads[c].op = "start" /\ threads[c].job = j /\ threads[c].ret = "True"

\* The configuration has a run_interval and it is positive.
PositiveInterval(config) == "run_interval" \in DOMAIN config /\ config.run_interval > 0

\* What a step does with the mode of job j and with a start of it.
ModeStep(j) ==
    /\ Registers(j) => (jobs'[j].is_scheduled <=> PositiveInterval(job_config[j]))
    /\ j \in DOMAIN jobs => jobs'[j].is_scheduled = jobs[j].is_scheduled
    /\ \A t \in Threads : StartAt(t, j, "start_reset") => threads'[t].pc = (IF PositiveInterval(job_config[j]) THEN "sched_set" ELSE "cont_popen")

\* C32: the scheduling mode fixed at registration is derived only from the
\* configuration's run_interval: zero or absent makes the job continuous,
\* positive makes it scheduled; the mode never changes afterwards, and it is
\* the mode start_job dispatches on.
C32_ModeFromRunInterval ==
    /\ [](\A j \in JobIds : j \in DOMAIN jobs => (jobs[j].is_scheduled <=> PositiveInterval(job_config[j])))
    /\ [][\A j \in JobIds : ModeStep(j)]_vars

\* A job whose configuration has no run_interval was registered (with the
\* default of 300 stored as its run_interval) and started: it is Running,
\* a continuous job.
C32_Witness == \E j \in JobIds : j \in DOMAIN jobs /\ "run_interval" \notin DOMAIN job_config[j] /\ jobs[j].run_interval = DefaultRunInterval /\ ~jobs[j].is_scheduled /\ jobs[j].status = RUNNING /\ jobs[j].scheduler_thread = None

\* C33: once stop(id) has returned success for a Scheduled job, its status
\* stays Stopped until the next start or restart call of a request thread,
\* even if a run was in flight at the time of the stop and later finishes
\* with a failure that brings restart_count to max_restarts.
C33_StoppedScheduledStays == [][\A j \in JobIds : (jobs[j].is_scheduled /\ stopped[j] /\ jobs[j].status = STOPPED) => (jobs'[j].status = STOPPED \/ ~stopped'[j])]_vars

\* The runs of job j that have failed so far: each put one ERROR entry into the pipe.
FailedRuns(j) == Cardinality({i \in DOMAIN pushed[j] : pushed[j][i].level = "ERROR"})

\* The runs of job j that have exited 0 so far.
SuccessfulRuns(j) == Cardinality({i \in DOMAIN pushed[j] : pushed[j][i] = RunEntry(0)})

\* No scheduling loop of job j is between the end of a run and the give-up test.
Decided(j) == \A t \in Threads : threads[t].job = j => threads[t].pc # "sched_after"

\* What the count of a scheduled job that was started once says.
CountsFailedRuns(j) ==
    /\ jobs[j].restart_count = FailedRuns(j)
    /\ (jobs[j].status = FAILED /\ jobs[j].max_restarts >= 1) => jobs[j].restart_count = jobs[j].max_restarts
    /\ (Decided(j) /\ jobs[j].max_restarts >= 1 /\ jobs[j].restart_count >= jobs[j].max_restarts) => jobs[j].status = FAILED
    /\ (jobs[j].status = FAILED /\ jobs[j].max_restarts >= 1 /\ SuccessfulRuns(j) = 0) => jobs[j].run_count = jobs[j].max_restarts

\* Thread t ends a run of job j that exited 0.
RunSucceeds(t, j) == threads[t].job = j /\ threads[t].pc = "exec_wait" /\ threads'[t].pc = "sched_after" /\ threads'[t].success

\* C34: restart_count of a scheduled job counts its failed runs since the
\* start cumulatively, not its consecutive failures: a successful run leaves
\* it as it is and no step of the loop decreases it, so the job becomes
\* Failed at its max_restarts-th failed run even when successful runs came
\* in between, and an always-failing job with max_restarts = N >= 1 has
\* performed exactly N runs when it becomes Failed.
C34_RestartCountCumulative ==
    /\ [](\A j \in JobIds : jobs[j].start_time # None => CountsFailedRuns(j))
    /\ [][\A j \in JobIds : jobs[j].start_time # None => (jobs'[j].restart_count >= jobs[j].restart_count /\ \A t \in Threads : RunSucceeds(t, j) => jobs'[j].restart_count = jobs[j].restart_count)]_vars

\* With max_restarts = 2 the first run failed, the second exited 0 and the
\* third failed: the job is Failed after three runs with restart_count 2.
C34_Witness == \E j \in JobIds : jobs[j].max_restarts = 2 /\ jobs[j].status = FAILED /\ jobs[j].run_count = 3 /\ jobs[j].restart_count = 2 /\ SuccessfulRuns(j) = 1 /\ Len(pushed[j]) = 6 /\ pushed[j][2].level = "ERROR" /\ pushed[j][4] = RunEntry(0) /\ pushed[j][6].level = "ERROR"

\* The states of a scheduled job and those of a continuous job.
StatesOfMode(is_scheduled) == IF is_scheduled THEN {STOPPED, SCHEDULED, FAILED} ELSE {STOPPED, RUNNING, FAILED, COMPLETED}

\* C35: a job's status always stays within the states of its mode: a
\* scheduled job is only ever Stopped, Scheduled or Failed, a continuous job
\* only ever Stopped, Running, Failed or Completed, after any sequence of
\* operations.
C35_StatusWithinMode == \A j \in JobIds : jobs[j].status \in StatesOfMode(jobs[j].is_scheduled)

\* A scheduled job was restarted by a request and then given up after a
\* failed run: it is Failed, having been Stopped and Scheduled before.
C35_Witness == \E j \in JobIds, c \in Callers : jobs[j].is_scheduled /\ jobs[j].status = FAILED /\ jobs[j].restart_count >= 1 /\ jobs[j].end_time # None /\ threads[c].pc = "idle" /\ threads[c].op = "restart" /\ threads[c].job = j /\ threads[c].ret = "True" /\ calls = 2

\* The runs of job j begun so far: each put its "Starting scheduled run" entry.
RunsBegun(j) == Cardinality({i \in DOMAIN pushed[j] : pushed[j][i].message = "Starting scheduled run"})

\* Thread t takes a step of start_job, stop_job or restart_job on job j.
RequestStep(t, j) == threads[t].job = j /\ threads[t].pc \in (StartBody \cup StopBody \cup {"start_check", "restart_sleep"}) /\ threads'[t] # threads[t]

\* What a step does with the run count of job j.
RunCountStep(j) ==
    /\ jobs'[j].run_count >= jobs[j].run_count
    /\ (\E t \in Threads : RequestStep(t, j)) => jobs'[j].run_count = jobs[j].run_count
    /\ (jobs[j].status # FAILED /\ jobs'[j].status = FAILED) => jobs'[j].run_count = jobs[j].run_count
    /\ ~jobs[j].is_scheduled => jobs'[j].run_count = jobs[j].run_count

\* C36: run_count is cumulative over the orchestrator's lifetime: it never
\* decreases, no step of start, stop or restart and no transition to Failed
\* changes it, it stays 0 for a continuous job, and for a scheduled job it
\* equals the number of runs begun since registration.
C36_RunCountCumulative ==
    /\ [](\A j \in JobIds : jobs[j].run_count = RunsBegun(j) /\ (~jobs[j].is_scheduled => jobs[j].run_count = 0))
    /\ [][\A j \in JobIds : RunCountStep(j)]_vars

\* With max_restarts = 1 the job was given up after its first run, which
\* failed; a restart request started it again and its second run failed
\* too: it is Failed with run_count 2 and restart_count 1.
C36_Witness == \E j \in JobIds, c \in Callers : jobs[j].is_scheduled /\ jobs[j].max_restarts = 1 /\ jobs[j].status = FAILED /\ jobs[j].run_count = 2 /\ jobs[j].restart_count = 1 /\ FailedRuns(j) = 2 /\ threads[c].pc = "idle" /\ threads[c].op = "restart" /\ threads[c].job = j /\ threads[c].ret = "True"

\* Nothing was ever done for job id j: no child and no thread has its id.
NeverLaunched(j) == (\A p \in Pids : procs[p].job # j) /\ (\A t \in Threads : threads[t].kind \in {"scheduler", "monitor"} => threads[t].job # j)

\* The main thread is inside the start_job call of initialize_jobs for job j.
MainStarts(j) == threads[MainThread].kind = "main" /\ threads[MainThread].job = j /\ threads[MainThread].pc \in (StartBody \cup {"start_check"})

\* What initialization has done for job id j, and what a start request on a
\* disabled id is answered.
StartupOf(j) ==
    /\ j \in DOMAIN jobs => job_config[j].enabled
    /\ Initialized => (j \in DOMAIN jobs <=> job_config[j].enabled)
    /\ MainStarts(j) => (job_config[j].enabled /\ job_config[j].auto_start)
    /\ (Initialized /\ calls = 0 /\ j \in DOMAIN jobs) => (job_config[j].auto_start <=> jobs[j].status # STOPPED)
    /\ (Initialized /\ calls = 0 /\ j \in DOMAIN jobs /\ ~job_config[j].auto_start) => (Fresh(jobs[j]) /\ NeverLaunched(j))
    /\ ~job_config[j].enabled => NeverLaunched(j)
    /\ ~job_config[j].enabled => \A c \in Callers : (threads[c].job = j /\ threads[c].pc = "idle" /\ threads[c].op = "start") => threads[c].ret = "False"

\* C37: startup initialization registers exactly the configurations whose
\* enabled flag is true and starts exactly those registered jobs whose
\* auto_start flag is true; a configuration with enabled = false is never
\* registered, so no child or thread of it is ever started and start on its
\* id returns failure (not registered).
C37_InitializeJobs == \A j \in PairIds : StartupOf(j)

\* Initialization has returned: the first job, enabled with auto_start, is
\* Scheduled and has begun a run; the second, not enabled, is not registered
\* and a start request on its id was refused.
C37_Witness == \E c \in Callers : Initialized /\ DOMAIN jobs = {AllJobIds[1]} /\ job_config[AllJobIds[1]].auto_start /\ jobs[AllJobIds[1]].status = SCHEDULED /\ jobs[AllJobIds[1]].run_count = 1 /\ ~job_config[AllJobIds[2]].enabled /\ job_config[AllJobIds[2]].auto_start /\ threads[c].pc = "idle" /\ threads[c].op = "start" /\ threads[c].job = AllJobIds[2] /\ threads[c].ret = "False"

====
